---- MODULE Spec2Model ----
(***************************************************************************)
(* bellows (jonatanolofsson fork): the device / endpoint / cluster object   *)
(* model of bellows.zigbee, its initialization state machines, inbound      *)
(* message routing and the sqlite persistence listener (appdb).             *)
(*                                                                          *)
(* The application runs on one asyncio event loop: a coroutine runs without *)
(* interruption until it awaits a network reply.  One action of this module *)
(* is one such uninterrupted run: from the start of a coroutine, or from    *)
(* the arrival of the reply it awaits, to its next await or its end.        *)
(* Python dicts keep insertion order and are modelled as sequences of       *)
(* records with unique keys; sqlite tables are sequences of rows in rowid   *)
(* order.                                                                   *)
(***************************************************************************)
EXTENDS Integers, Sequences, FiniteSets, TLC

VARIABLES
    devices,     \* ieee -> Device object (registered or being probed)
    appDevices,  \* the keys of ControllerApplication.devices
    tasks,       \* ieee -> the coroutine suspended on a request for that device
    db,          \* the committed content of the sqlite file
    phase,       \* "running" | "stopped" | "load_failed"
    emitted,     \* the listener events of the last run, in order
    commitLog,   \* the commit points inside the saves of the last run
    last,        \* what the last run was
    crash,       \* the save the process stopped in, if it stopped in one
    steps,       \* number of runs so far
    call         \* the last call of a function of the zcl package: arguments and result

vars == <<devices, appDevices, tasks, db, phase, emitted, commitLog, last, crash, steps, call>>

----------------------------------------------------------------------------
(* Bounds of the model *)

\* Number of runs of a behaviour.
MaxSteps == 6

\* Number of runs of a behaviour of a device on its clusters.
MaxClusterSteps == 3

----------------------------------------------------------------------------
(* Values *)

\* Python's None
None == -1
\* An attribute that was never assigned (getattr(obj, name, None) reads None)
Unset == -2

\* bellows.zigbee.device.Status
Status_NEW == 0
Status_ENDPOINTS_INITED == 10
Status_INITIALIZED == 100

\* bellows.zigbee.endpoint.Status
EpStatus_NEW == 0
EpStatus_INITIALIZING == 1
EpStatus_ZDO_INIT == 2
EpStatus_INITIALIZED == 100

\* specialization.VENDOR
VENDOR_IKEA == 4476
VENDOR_XIAOMI == 4151
\* A manufacturer code with no specialization (0xDEAD in the tests)
OtherManufacturer == 57005

\* The OnOff cluster (ep_attribute 'on_off'), its attribute 'on_off', and the
\* Xiaomi heartbeat attribute with the entry type that carries on_off
ZCL_CLUSTER_ID_on_off == 6
AttrId_on_off == 0
XiaomiHeartbeat == 65281
XiaomiType_on_off == 100

\* The attribute 'model' of the Basic cluster (0), and two values of it: a
\* number stands for the byte string, one whose text after "lumi." starts
\* with "sensor_magnet" and one whose text does not
ZCL_CLUSTER_ID_basic == 0
AttrId_model == 5
Model_sensor_magnet == 1001
Model_plug == 1002
ModelNames == {Model_sensor_magnet, Model_plug}

SPECIALIZED_LISTENERS == {VENDOR_XIAOMI}
SPECIALIZED_DEVICES == {VENDOR_IKEA}

\* The IEEE addresses of the model: EmberEUI64 values, shortened to two bytes.
Ieees == {<<0, 1>>, <<10, 255>>}
Nwks == {99}
Manufacturers == {VENDOR_IKEA, VENDOR_XIAOMI, OtherManufacturer}

\* Profiles known to bellows.zigbee.profiles.PROFILES and their DeviceType
\* enumerations (zha: 260 with PUMP = 0x0303; zll: 49246 with COLOR_LIGHT = 0x0200).
PROFILES == {260, 49246}
DeviceTypes(profile) == IF profile = 260 THEN {771} ELSE IF profile = 49246 THEN {512} ELSE {}

----------------------------------------------------------------------------
(* Local variables *)

\* v = value; F(v): a local variable assigned once and read by what follows
Let(value, F(_)) == F(value)

----------------------------------------------------------------------------
(* sqlite adapters: EmberEUI64 <-> the text of the ieee column *)

HexDigits == <<"0", "1", "2", "3", "4", "5", "6", "7", "8", "9", "a", "b", "c", "d", "e", "f">>

\* '%02x' % byte
Hex2(b) == <<HexDigits[(b \div 16) + 1], HexDigits[(b % 16) + 1]>>

RECURSIVE JoinColon(_)
JoinColon(parts) ==
    IF parts = <<>> THEN <<>>
    ELSE IF Len(parts) = 1 THEN Head(parts)
    ELSE Head(parts) \o <<":">> \o JoinColon(Tail(parts))

\* repr(eui64): the colon-separated hex bytes
adapt_ieee(eui64) == JoinColon([k \in 1..Len(eui64) |-> Hex2(eui64[k])])

RECURSIVE SplitColon(_, _)
\* s.split(b':'), acc being the part read so far
SplitColon(s, acc) ==
    IF s = <<>> THEN <<acc>>
    ELSE IF Head(s) = ":" THEN <<acc>> \o SplitColon(Tail(s), <<>>)
    ELSE SplitColon(Tail(s), Append(acc, Head(s)))

HexValue(c) == (CHOOSE k \in 1..16 : HexDigits[k] = c) - 1

RECURSIVE ParseHex(_, _)
\* int(p, 16)
ParseHex(p, acc) ==
    IF p = <<>> THEN acc ELSE ParseHex(Tail(p), 16 * acc + HexValue(Head(p)))

convert_ieee(s) ==
    LET parts == SplitColon(s, <<>>)
    IN  [k \in 1..Len(parts) |-> ParseHex(parts[k], 0)]

----------------------------------------------------------------------------
(* The registry of cluster definitions (zcl.Cluster._registry and            *)
(* _registry_range, filled by the metaclass Registry from the classes of     *)
(* zcl.clusters) and the general commands of zcl.foundation.  A definition   *)
(* gives attributes: id -> (name, type), and server_commands and             *)
(* client_commands: id -> (name, schema, is_reply).  Three clusters stand for *)
(* the registry: Basic (0), Identify (3) and OnOff (6); one range stands for *)
(* _registry_range: the manufacturer specific clusters.                      *)

RegisteredClusters == {0, 3, 6}
cluster_id_range == <<64512, 65535>>

\* An entry of an attributes table and of a commands table
AttrDef(name, type) == [name |-> name, type |-> type]
CommandDef(name, schema, is_reply) == [name |-> name, schema |-> schema, is_reply |-> is_reply]

\* cls.attributes of the class registered for a cluster id
RegistryAttributes(cluster_id) ==
    CASE cluster_id = 0 -> (0 :> AttrDef("zcl_version", "uint8_t"))
      [] cluster_id = 3 -> (0 :> AttrDef("identify_time", "uint16_t"))
      [] cluster_id = 6 -> (0 :> AttrDef("on_off", "Bool")) @@ (16385 :> AttrDef("on_time", "uint16_t"))
      [] OTHER -> <<>>

\* cls.server_commands and cls.client_commands of the class registered for a
\* cluster id
RegistryServerCommands(cluster_id) ==
    CASE cluster_id = 0 -> (0 :> CommandDef("reset_fact_default", <<>>, FALSE))
      [] cluster_id = 3 -> (0 :> CommandDef("identify", <<"uint16_t">>, FALSE))
                           @@ (1 :> CommandDef("identify_query", <<>>, FALSE))
      [] cluster_id = 6 -> (0 :> CommandDef("off", <<>>, FALSE))
                           @@ (1 :> CommandDef("on", <<>>, FALSE))
                           @@ (66 :> CommandDef("on_with_timed_off", <<"uint8_t", "uint16_t">>, FALSE))
      [] OTHER -> <<>>
RegistryClientCommands(cluster_id) ==
    CASE cluster_id = 3 -> (0 :> CommandDef("identify_query_response", <<"uint16_t">>, TRUE))
      [] OTHER -> <<>>

\* foundation.COMMANDS: read attributes and its response, report attributes,
\* default response.  The records of the lists of commands 1 and 10 are
\* abridged to 16-bit numbers.
FoundationCommands ==
    (0 :> CommandDef("Read attributes", <<"List_uint16_t">>, FALSE))
    @@ (1 :> CommandDef("Read attributes response", <<"List_uint16_t">>, TRUE))
    @@ (10 :> CommandDef("Report attributes", <<"List_uint16_t">>, FALSE))
    @@ (11 :> CommandDef("Default response", <<"uint8_t", "uint8_t">>, TRUE))

----------------------------------------------------------------------------
(* The ZCL frame codec: bellows.types.serialize and deserialize for the      *)
(* types of the schemas above, Cluster.request and Cluster.reply up to the   *)
(* bytes they hand to the device, and zcl.deserialize.  Bytes are sequences  *)
(* of numbers in 0..255.                                                     *)

RECURSIVE List_serialize(_)
\* List(uint16_t).serialize: the items one after the other, with no count
List_serialize(items) ==
    IF items = <<>> THEN <<>>
    ELSE <<Head(items) % 256, Head(items) \div 256>> \o List_serialize(Tail(items))

\* type(value).serialize(): integers are little-endian
TypeSerialize(type, value) ==
    CASE type = "uint8_t" -> <<value>>
      [] type = "uint16_t" -> <<value % 256, value \div 256>>
      [] type = "List_uint16_t" -> List_serialize(value)

RECURSIVE t_serialize(_, _)
\* t.serialize(data, schema)
t_serialize(data, schema) ==
    IF schema = <<>> THEN <<>>
    ELSE TypeSerialize(Head(schema), Head(data)) \o t_serialize(Tail(data), Tail(schema))

\* data[n:]
Drop(data, n) == SubSeq(data, n + 1, Len(data))

\* int.from_bytes(data[:2], 'little')
uint16_from_bytes(data) ==
    IF data = <<>> THEN 0 ELSE IF Len(data) = 1 THEN data[1] ELSE data[1] + 256 * data[2]

RECURSIVE List_deserialize(_, _)
\* List(uint16_t).deserialize: items while data is left
List_deserialize(data, acc) ==
    IF data = <<>> THEN acc
    ELSE List_deserialize(Drop(data, 2), Append(acc, uint16_from_bytes(data)))

\* type.deserialize(data): the value and the data left
TypeDeserialize(type, data) ==
    CASE type = "uint8_t" -> [value |-> IF data = <<>> THEN 0 ELSE data[1], data |-> Drop(data, 1)]
      [] type = "uint16_t" -> [value |-> uint16_from_bytes(data), data |-> Drop(data, 2)]
      [] type = "List_uint16_t" -> [value |-> List_deserialize(data, <<>>), data |-> <<>>]

RECURSIVE t_deserialize(_, _, _)
\* t.deserialize(data, schema): the values and the data left
t_deserialize(data, schema, acc) ==
    IF schema = <<>> THEN [value |-> acc, data |-> data]
    ELSE t_deserialize(TypeDeserialize(Head(schema), data).data, Tail(schema),
                       Append(acc, TypeDeserialize(Head(schema), data).value))

\* The bytes after the frame control: the manufacturer code, if any, the
\* sequence number of the aps frame, the command id and the arguments
FrameTail(sequence, command_id, schema, args, manufacturer) ==
    (IF manufacturer = None THEN <<>> ELSE <<manufacturer % 256, manufacturer \div 256>>)
    \o <<sequence, command_id>> \o t_serialize(args, schema)

\* What request and reply do when the lengths of schema and args differ:
\* they make a Future, set a ValueError in it and return it.  Both are
\* coroutines, so the caller's await ends with the Future as its value and
\* nothing is raised; get_aps was not called and no data was made.
SchemaMismatch == [error |-> TRUE, raised |-> FALSE, aps |-> FALSE, data |-> <<>>]

\* cluster_request with the manufacturer bit set and the code left out
cluster_request_NoManufacturerCode(general, command_id, schema, args, manufacturer, sequence) ==
    IF Len(schema) # Len(args) THEN SchemaMismatch
    ELSE [error |-> FALSE, raised |-> FALSE, aps |-> TRUE,
          data |-> <<(IF general THEN 0 ELSE 1) + (IF manufacturer = None THEN 0 ELSE 4)>>
                   \o FrameTail(sequence, command_id, schema, args, None)]

\* Cluster.request up to the data it sends: the frame control is 0 for a
\* general command and 1 for a command of the cluster, and has bit 2 set with
\* a manufacturer code.  error: the lengths of schema and args differ; aps:
\* get_aps was called, which takes a sequence number.
cluster_request(general, command_id, schema, args, manufacturer, sequence) ==
    IF Len(schema) # Len(args) THEN SchemaMismatch
    ELSE [error |-> FALSE, raised |-> FALSE, aps |-> TRUE,
          data |-> <<(IF general THEN 0 ELSE 1) + (IF manufacturer = None THEN 0 ELSE 4)>>
                   \o FrameTail(sequence, command_id, schema, args, manufacturer)]

\* Cluster.reply up to the data it sends: as request, with bit 3 set
cluster_reply(general, command_id, schema, args, manufacturer, sequence) ==
    IF Len(schema) # Len(args) THEN SchemaMismatch
    ELSE [error |-> FALSE, raised |-> FALSE, aps |-> TRUE,
          data |-> <<8 + (IF general THEN 0 ELSE 1) + (IF manufacturer = None THEN 0 ELSE 4)>>
                   \o FrameTail(sequence, command_id, schema, args, manufacturer)]

\* What zcl.deserialize returns: (tsn, command_id, is_reply, value), where
\* decoded tells the arguments from the undecoded payload, and failed stands
\* for the IndexError of a frame that ends before its command id
Decoded(tsn, command_id, is_reply, value, decoded) ==
    [failed |-> FALSE, tsn |-> tsn, command_id |-> command_id, is_reply |-> is_reply,
     value |-> value, decoded |-> decoded]
DeserializeFailed ==
    [failed |-> TRUE, tsn |-> None, command_id |-> None, is_reply |-> FALSE, value |-> <<>>,
     decoded |-> FALSE]

\* DecodeArgs with the data that remains added to the values
DecodeArgs_KeepsRest(data, schema) ==
    t_deserialize(data, schema, <<>>).value \o t_deserialize(data, schema, <<>>).data

\* value, data = t.deserialize(data, schema): the data that remains is only
\* logged
DecodeArgs(data, schema) == t_deserialize(data, schema, <<>>).value

\* DeserializeBody with the id of an unknown command of a known cluster left
\* as it is on the wire
DeserializeBody_NoOffset(cluster_id, frame_type, direction, tsn, command_id, data) ==
    IF frame_type = 1
    THEN IF cluster_id \notin RegisteredClusters
         THEN Decoded(tsn, command_id + 256, direction = 1, data, FALSE)
         ELSE Let(IF direction = 1 THEN RegistryClientCommands(cluster_id)
                  ELSE RegistryServerCommands(cluster_id),
                  LAMBDA commands :
                    IF command_id \notin DOMAIN commands
                    THEN Decoded(tsn, command_id, direction = 1, data, FALSE)
                    ELSE Decoded(tsn, command_id + 256, commands[command_id].is_reply,
                                 DecodeArgs(data, commands[command_id].schema), TRUE))
    ELSE IF command_id \notin DOMAIN FoundationCommands
         THEN Decoded(tsn, command_id, direction = 1, data, FALSE)
         ELSE Decoded(tsn, command_id, FoundationCommands[command_id].is_reply,
                      DecodeArgs(data, FoundationCommands[command_id].schema), TRUE)

\* zcl.deserialize after the header is read; is_reply starts as the direction
\* and is replaced by the third field of the command's entry
DeserializeBody(cluster_id, frame_type, direction, tsn, command_id, data) ==
    IF frame_type = 1
    THEN IF cluster_id \notin RegisteredClusters
         THEN Decoded(tsn, command_id + 256, direction = 1, data, FALSE)
         ELSE Let(IF direction = 1 THEN RegistryClientCommands(cluster_id)
                  ELSE RegistryServerCommands(cluster_id),
                  LAMBDA commands :
                    IF command_id \notin DOMAIN commands
                    THEN Decoded(tsn, command_id + 256, direction = 1, data, FALSE)
                    ELSE Decoded(tsn, command_id + 256, commands[command_id].is_reply,
                                 DecodeArgs(data, commands[command_id].schema), TRUE))
    ELSE IF command_id \notin DOMAIN FoundationCommands
         THEN Decoded(tsn, command_id, direction = 1, data, FALSE)
         ELSE Decoded(tsn, command_id, FoundationCommands[command_id].is_reply,
                      DecodeArgs(data, FoundationCommands[command_id].schema), TRUE)

\* zcl.deserialize(cluster_id, data)
deserialize(cluster_id, data) ==
    IF data = <<>> \/ Len(data) < (IF (data[1] \div 4) % 2 = 1 THEN 5 ELSE 3) THEN DeserializeFailed
    ELSE Let(IF (data[1] \div 4) % 2 = 1 THEN Drop(data, 3) ELSE Drop(data, 1),
             LAMBDA rest :
                DeserializeBody(cluster_id, data[1] % 4, (data[1] \div 8) % 2, rest[1], rest[2],
                                Drop(rest, 2)))

----------------------------------------------------------------------------
(* The object model: Device, Endpoint, Cluster *)

\* from_id without the search of _registry_range
from_id_NoRange(cluster_id) ==
    [cluster_id |-> cluster_id,
     class |-> IF cluster_id \in RegisteredClusters THEN "registered" ELSE "Cluster",
     cache |-> <<>>]

\* zcl.Cluster.from_id: an instance of the class registered for the id, or
\* of the class registered for a range that holds the id, or of Cluster
\* itself; cluster_id is the id asked for and _attr_cache is empty
\* (is_input is None until add_cluster assigns it).
from_id(cluster_id) ==
    [cluster_id |-> cluster_id,
     class |-> IF cluster_id \in RegisteredClusters THEN "registered"
               ELSE IF cluster_id_range[1] <= cluster_id /\ cluster_id <= cluster_id_range[2]
               THEN "range"
               ELSE "Cluster",
     cache |-> <<>>]

\* zcl.Cluster.from_id followed by cluster.is_input = is_input: a cluster with
\* an empty attribute cache
NewCluster(cluster_id, is_input) ==
    [cluster_id |-> cluster_id, is_input |-> is_input, cache |-> from_id(cluster_id).cache,
     class |-> from_id(cluster_id).class]

\* endpoint.Endpoint.__init__ (profile_id and device_type are not assigned).
\* cluster_attr is the entry of _cluster_attr for 'on_off': "none", or the map
\* ("in", "out") holding the cluster it names.
NewEndpoint(endpoint_id) ==
    [endpoint_id |-> endpoint_id, zdo |-> FALSE, status |-> EpStatus_NEW,
     profile_id |-> Unset, device_type |-> [raw |-> Unset, enum |-> FALSE],
     in_clusters |-> <<>>, out_clusters |-> <<>>, cluster_attr |-> "none"]

\* zdo.ZDO(self): the object bound to key 0 of Device.endpoints
ZdoObject == [NewEndpoint(0) EXCEPT !.zdo = TRUE]

\* device.Device.__init__
NewDevice(nwk, manufacturer) ==
    [nwk |-> nwk, status |-> Status_NEW, manufacturer |-> manufacturer,
     endpoints |-> <<ZdoObject>>]

\* key in dict, dict[key], dict[key] = value for the dicts kept as sequences
HasEndpoint(dev, endpoint_id) == \E k \in 1..Len(dev.endpoints) : dev.endpoints[k].endpoint_id = endpoint_id
EndpointIndex(dev, endpoint_id) == CHOOSE k \in 1..Len(dev.endpoints) : dev.endpoints[k].endpoint_id = endpoint_id
GetEndpoint(dev, endpoint_id) == dev.endpoints[EndpointIndex(dev, endpoint_id)]
SetEndpoint(dev, ep) == [dev EXCEPT !.endpoints[EndpointIndex(dev, ep.endpoint_id)] = ep]
EndpointKeys(dev) == [k \in 1..Len(dev.endpoints) |-> dev.endpoints[k].endpoint_id]

HasCluster(clusters, cluster_id) == \E k \in 1..Len(clusters) : clusters[k].cluster_id = cluster_id
ClusterIndex(clusters, cluster_id) == CHOOSE k \in 1..Len(clusters) : clusters[k].cluster_id = cluster_id

\* Device.add_endpoint without the test of the key
add_endpoint_Replaces(dev, endpoint_id) ==
    IF HasEndpoint(dev, endpoint_id) THEN SetEndpoint(dev, NewEndpoint(endpoint_id))
    ELSE [dev EXCEPT !.endpoints = Append(@, NewEndpoint(endpoint_id))]

\* Device.add_endpoint
add_endpoint(dev, endpoint_id) ==
    IF HasEndpoint(dev, endpoint_id) THEN dev
    ELSE [dev EXCEPT !.endpoints = Append(@, NewEndpoint(endpoint_id))]

\* Endpoint.add_cluster
add_cluster(ep, cluster_id, is_input) ==
    IF is_input
    THEN IF HasCluster(ep.in_clusters, cluster_id) THEN ep
         ELSE [ep EXCEPT !.in_clusters = Append(@, NewCluster(cluster_id, TRUE)),
                         !.cluster_attr = IF cluster_id = ZCL_CLUSTER_ID_on_off THEN "in" ELSE @]
    ELSE IF HasCluster(ep.out_clusters, cluster_id) THEN ep
         ELSE [ep EXCEPT !.out_clusters = Append(@, NewCluster(cluster_id, FALSE)),
                         !.cluster_attr = IF cluster_id = ZCL_CLUSTER_ID_on_off THEN "out" ELSE @]

\* Endpoint.__getattr__('on_off'): the cluster _cluster_attr names, added as an
\* input cluster when there is none
endpoint_on_off(ep) ==
    IF ep.cluster_attr = "none" THEN add_cluster(ep, ZCL_CLUSTER_ID_on_off, TRUE) ELSE ep

RECURSIVE add_clusters(_, _, _)
\* for cluster in ids: self.add_cluster(cluster, is_input)
add_clusters(ep, ids, is_input) ==
    IF ids = <<>> THEN ep
    ELSE add_clusters(add_cluster(ep, Head(ids), is_input), Tail(ids), is_input)

\* PROFILES[profile_id].DeviceType(device_type), keeping the raw integer on ValueError
ResolveDeviceType(profile_id, raw) ==
    [raw |-> raw, enum |-> raw \in DeviceTypes(profile_id)]

\* self._attr_cache[attrid] = value
CachePut(cache, attrid, value) ==
    [a \in (DOMAIN cache) \cup {attrid} |-> IF a = attrid THEN value ELSE cache[a]]

----------------------------------------------------------------------------
(* appdb.PersistingListener: the four relations and the statements on them *)

EmptyDb == [devices |-> <<>>, endpoints |-> <<>>, clusters |-> <<>>, cluster_attributes |-> <<>>]

\* the first n columns of two rows agree (n: the columns of the unique index)
KeyEq(r1, r2, n) == \A k \in 1..n : r1[k] = r2[k]

\* INSERT OR REPLACE INTO table VALUES row, under a unique index on the
\* first n columns: the conflicting row is deleted and the new one appended
InsertOrReplace(table, row, n) ==
    Append(SelectSeq(table, LAMBDA r : ~KeyEq(r, row, n)), row)

RECURSIVE executemany(_, _, _)
executemany(table, rows, n) ==
    IF rows = <<>> THEN table
    ELSE executemany(InsertOrReplace(table, Head(rows), n), Tail(rows), n)

\* DELETE FROM table WHERE ieee = ?
DeleteWhereIeee(table, ieee) == SelectSeq(table, LAMBDA r : r[1] # ieee)

\* getattr(ep, name, None)
GetAttrOrNone(v) == IF v = Unset THEN None ELSE v

\* _remove_device without its DELETE FROM cluster_attributes
remove_device_KeepsAttributes(cur, ieee) ==
    [devices |-> DeleteWhereIeee(cur.devices, adapt_ieee(ieee)),
     endpoints |-> DeleteWhereIeee(cur.endpoints, adapt_ieee(ieee)),
     clusters |-> DeleteWhereIeee(cur.clusters, adapt_ieee(ieee)),
     cluster_attributes |-> cur.cluster_attributes]

\* PersistingListener._remove_device
remove_device(cur, ieee) ==
    [devices |-> DeleteWhereIeee(cur.devices, adapt_ieee(ieee)),
     endpoints |-> DeleteWhereIeee(cur.endpoints, adapt_ieee(ieee)),
     clusters |-> DeleteWhereIeee(cur.clusters, adapt_ieee(ieee)),
     cluster_attributes |-> DeleteWhereIeee(cur.cluster_attributes, adapt_ieee(ieee))]

\* the rows _save_endpoints builds: the initialized endpoints other than ZDO
EndpointRows(ieee, dev) ==
    LET kept == SelectSeq(dev.endpoints,
                          LAMBDA ep : ~(ep.endpoint_id = 0 \/ ep.status # EpStatus_INITIALIZED))
    IN  [k \in 1..Len(kept) |->
            <<adapt_ieee(ieee), kept[k].endpoint_id, GetAttrOrNone(kept[k].profile_id),
              GetAttrOrNone(kept[k].device_type.raw)>>]

\* PersistingListener._save_endpoints, up to its commit
save_endpoints(cur, ieee, dev) ==
    [cur EXCEPT !.endpoints =
        executemany(DeleteWhereIeee(cur.endpoints, adapt_ieee(ieee)), EndpointRows(ieee, dev), 2)]

\* the rows _save_clusters builds for one endpoint: input clusters, then output
ClusterRows(ieee, ep) ==
    [k \in 1..Len(ep.in_clusters) |->
        <<adapt_ieee(ieee), ep.endpoint_id, ep.in_clusters[k].cluster_id,
          IF ep.in_clusters[k].is_input THEN 1 ELSE 0>>]
    \o
    [k \in 1..Len(ep.out_clusters) |->
        <<adapt_ieee(ieee), ep.endpoint_id, ep.out_clusters[k].cluster_id,
          IF ep.out_clusters[k].is_input THEN 1 ELSE 0>>]

\* PersistingListener._save_clusters, up to its commit
save_clusters(cur, ieee, ep) ==
    [cur EXCEPT !.clusters =
        executemany(DeleteWhereIeee(cur.clusters, adapt_ieee(ieee)), ClusterRows(ieee, ep), 4)]

RECURSIVE SaveClustersCommits(_, _, _)
\* the loop of _save_device over device.endpoints: the committed content after
\* each _save_clusters call, ZDO skipped
SaveClustersCommits(cur, ieee, eps) ==
    IF eps = <<>> THEN <<>>
    ELSE IF Head(eps).endpoint_id = 0 THEN SaveClustersCommits(cur, ieee, Tail(eps))
    ELSE Let(save_clusters(cur, ieee, Head(eps)),
             LAMBDA nxt : <<nxt>> \o SaveClustersCommits(nxt, ieee, Tail(eps)))

\* PersistingListener._save_device: the contents the file has after each of
\* its commits, in order (none when the device is not INITIALIZED)
save_device(cur, ieee, dev) ==
    IF dev.status # Status_INITIALIZED THEN <<>>
    ELSE Let(save_endpoints([cur EXCEPT !.devices =
                                InsertOrReplace(@, <<adapt_ieee(ieee), dev.nwk, dev.manufacturer>>, 1)],
                            ieee, dev),
             LAMBDA c1 :
                Let(<<c1>> \o SaveClustersCommits(c1, ieee, dev.endpoints),
                    LAMBDA cs : Append(cs, cs[Len(cs)])))

RECURSIVE Decimal(_)
\* the decimal text of a number
Decimal(n) ==
    IF n < 10 THEN <<HexDigits[n + 1]>>
    ELSE Decimal(n \div 10) \o <<HexDigits[(n % 10) + 1]>>

\* The column cluster_attributes.value is declared TEXT: sqlite stores a
\* number put into it as its text and a byte string (the heartbeat) as it is.
text_affinity(attrid, value) ==
    IF attrid = XiaomiHeartbeat \/ value \in ModelNames THEN value ELSE Decimal(value)

\* PersistingListener._save_attribute
save_attribute(cur, ieee, endpoint_id, cluster_id, attrid, value) ==
    [cur EXCEPT !.cluster_attributes =
        InsertOrReplace(@, <<adapt_ieee(ieee), endpoint_id, cluster_id, attrid,
                             text_affinity(attrid, value)>>, 4)]

----------------------------------------------------------------------------
(* Listener events.  A run carries st = [dev, db, emitted, log]: the Device  *)
(* it works on, the committed file, the events emitted so far and the commit *)
(* points passed so far.                                                     *)

Event(name, ieee) ==
    [name |-> name, ieee |-> ieee, status |-> None, endpoint_id |-> None, cluster_id |-> None,
     is_input |-> FALSE, attrid |-> None, value |-> None, command_id |-> None, wrote |-> FALSE,
     cached |-> None, held |-> FALSE]

\* A request handed to the device: a ZCL frame of Cluster.request or
\* Cluster.reply, or the bind of a cluster through the ZDO
Frame(how, endpoint_id, cluster_id, general, command_id, args) ==
    [how |-> how, endpoint_id |-> endpoint_id, cluster_id |-> cluster_id, general |-> general,
     command_id |-> command_id, args |-> args]

\* What a listener of an attribute_updated event reads in the cache of the
\* event's cluster for the event's attribute (None: no entry)
CachedAt(dev, ev) ==
    IF ev.name # "attribute_updated" \/ ~HasEndpoint(dev, ev.endpoint_id) THEN None
    ELSE LET ep == GetEndpoint(dev, ev.endpoint_id)
             clusters == IF ev.is_input THEN ep.in_clusters ELSE ep.out_clusters
         IN  IF ~HasCluster(clusters, ev.cluster_id) THEN None
             ELSE IF ev.attrid \notin DOMAIN clusters[ClusterIndex(clusters, ev.cluster_id)].cache
             THEN None
             ELSE clusters[ClusterIndex(clusters, ev.cluster_id)].cache[ev.attrid]

\* What PersistingListener does on an event: the contents of the file after
\* each commit of the handler, in order.
PersistingListener(cur, ev, dev) ==
    CASE ev.name \in {"device_joined", "device_initialized", "device_updated"} ->
            save_device(cur, ev.ieee, dev)
      [] ev.name = "device_removed" -> <<remove_device(cur, ev.ieee)>>
      [] ev.name = "attribute_updated" ->
            IF ~ev.is_input THEN <<>>
            ELSE <<save_attribute(cur, ev.ieee, ev.endpoint_id, ev.cluster_id, ev.attrid, ev.value)>>
      [] OTHER -> <<>>

\* The persistence listener's turn in application.listener_event: the event
\* is recorded with the status of its device, what the cache holds for it and
\* whether the file changed, and every commit of the handler is a point where
\* the process may stop.
Persist(st, ev) ==
    Let(PersistingListener(st.db, ev, st.dev),
        LAMBDA commits :
            LET after == IF commits = <<>> THEN st.db ELSE commits[Len(commits)]
            IN  [st EXCEPT
                    !.db = after,
                    !.emitted = Append(@, [ev EXCEPT !.status = st.dev.status,
                                                     !.cached = CachedAt(st.dev, ev),
                                                     !.wrote = (after # st.db)]),
                    !.log = @ \o [k \in 1..Len(commits) |->
                                    [name |-> ev.name, ieee |-> ev.ieee, pre |-> st.db,
                                     post |-> after, at |-> commits[k]]]])

RECURSIVE listener_event(_, _)

\* Endpoint.listener_event(name, ...): the endpoint's own listeners; none of
\* them is the persistence listener.
endpoint_listener_event(st, ev) ==
    [st EXCEPT !.emitted = Append(@, [ev EXCEPT !.status = st.dev.status])]

----------------------------------------------------------------------------
(* Inbound messages: Device.handle_message -> Endpoint.handle_message ->     *)
(* Cluster.handle_message                                                    *)

\* _update_attribute with its two statements exchanged: the event, then the cache
update_attribute_EventFirst(st, ieee, endpoint_id, is_input, cluster_id, attrid, value) ==
    LET st1 == listener_event(st, [Event("attribute_updated", ieee) EXCEPT
                                !.endpoint_id = endpoint_id, !.cluster_id = cluster_id,
                                !.is_input = is_input, !.attrid = attrid, !.value = value])
        ep == GetEndpoint(st1.dev, endpoint_id)
        ep2 == IF is_input
               THEN [ep EXCEPT !.in_clusters[ClusterIndex(ep.in_clusters, cluster_id)].cache =
                                    CachePut(@, attrid, value)]
               ELSE [ep EXCEPT !.out_clusters[ClusterIndex(ep.out_clusters, cluster_id)].cache =
                                    CachePut(@, attrid, value)]
    IN  [st1 EXCEPT !.dev = SetEndpoint(st1.dev, ep2),
                    !.writes = Append(@, [endpoint_id |-> endpoint_id, cluster_id |-> cluster_id,
                                          is_input |-> is_input, attrid |-> attrid,
                                          value |-> value])]

\* Cluster._update_attribute on the cluster (endpoint_id, is_input, cluster_id)
update_attribute(st, ieee, endpoint_id, is_input, cluster_id, attrid, value) ==
    LET ep == GetEndpoint(st.dev, endpoint_id)
        ep2 == IF is_input
               THEN [ep EXCEPT !.in_clusters[ClusterIndex(ep.in_clusters, cluster_id)].cache =
                                    CachePut(@, attrid, value)]
               ELSE [ep EXCEPT !.out_clusters[ClusterIndex(ep.out_clusters, cluster_id)].cache =
                                    CachePut(@, attrid, value)]
        st2 == [st EXCEPT !.dev = SetEndpoint(st.dev, ep2),
                          !.writes = Append(@, [endpoint_id |-> endpoint_id, cluster_id |-> cluster_id,
                                                is_input |-> is_input, attrid |-> attrid,
                                                value |-> value])]
    IN  listener_event(st2, [Event("attribute_updated", ieee) EXCEPT
                                !.endpoint_id = endpoint_id, !.cluster_id = cluster_id,
                                !.is_input = is_input, !.attrid = attrid, !.value = value])

\* Xiaomi.device_initialized: device[1].on_off.add_listener(Xiaomi).  Without
\* an endpoint 1 device[1] is a KeyError and nothing is changed.
Xiaomi_device_initialized(st) ==
    IF ~HasEndpoint(st.dev, 1) THEN st
    ELSE [st EXCEPT !.dev = SetEndpoint(st.dev, endpoint_on_off(GetEndpoint(st.dev, 1)))]

RECURSIVE Xiaomi_heartbeat(_, _, _, _)
\* Xiaomi.attribute_updated, attrid 0xFF01: while data: one (type, value)
\* entry is taken off data; an entry of type 0x64 goes to
\* cluster.endpoint.on_off.update_attribute_local("on_off", value).  data is
\* the number whose base-65536 digits are the entries, 256 * type + value.
Xiaomi_heartbeat(st, ieee, endpoint_id, data) ==
    IF data = 0 THEN st
    ELSE LET xiaomi_type == (data % 65536) \div 256
             value == data % 256
             ep == endpoint_on_off(GetEndpoint(st.dev, endpoint_id))
         IN  Xiaomi_heartbeat(
                IF xiaomi_type = XiaomiType_on_off
                THEN update_attribute([st EXCEPT !.dev = SetEndpoint(st.dev, ep)], ieee, endpoint_id,
                                      ep.cluster_attr = "in", ZCL_CLUSTER_ID_on_off,
                                      AttrId_on_off, value)
                ELSE st,
                ieee, endpoint_id, data \div 65536)

\* Xiaomi.attribute_updated, cluster 0 and attrid 5: without xiaomi_bound on
\* the cluster, a model that starts with "sensor_magnet" makes the hook await
\* cluster.bind() and then call cluster.configure_reporting(attrid=0, ...).
\* configure_reporting has no parameter attrid (its parameter is attribute):
\* the call is a TypeError before any frame is made, and the assignment
\* cluster.xiaomi_bound = True after it is never reached, so no cluster ever
\* has the flag.  The run records the bind request among the frames it sent.
Xiaomi_model_name(st, ev) ==
    IF ev.value = Model_sensor_magnet
    THEN [st EXCEPT !.sent = Append(@, Frame("bind", ev.endpoint_id, ev.cluster_id, FALSE, None, <<>>))]
    ELSE st

\* The listener without the test of the manufacturer code against the table:
\* the hooks of the one vendor of the table for every device
SpecializationListener_AnyVendor(st, ev) ==
    IF ev.name = "device_initialized" THEN Xiaomi_device_initialized(st)
    ELSE IF ev.name = "attribute_updated" /\ ev.cluster_id = ZCL_CLUSTER_ID_basic
            /\ ev.attrid = AttrId_model
    THEN Xiaomi_model_name(st, ev)
    ELSE IF ev.name = "attribute_updated" /\ ev.attrid = XiaomiHeartbeat
    THEN Xiaomi_heartbeat(st, ev.ieee, ev.endpoint_id, ev.value)
    ELSE st

\* SpecializationListener.__getattr__(name): the hook of the vendor of the
\* event's device, when its manufacturer code is in SPECIALIZED_LISTENERS and
\* the vendor defines the hook
SpecializationListener(st, ev) ==
    IF st.dev.manufacturer = None \/ st.dev.manufacturer \notin SPECIALIZED_LISTENERS THEN st
    ELSE IF ev.name = "device_initialized" THEN Xiaomi_device_initialized(st)
    ELSE IF ev.name = "attribute_updated" /\ ev.cluster_id = ZCL_CLUSTER_ID_basic
            /\ ev.attrid = AttrId_model
    THEN Xiaomi_model_name(st, ev)
    ELSE IF ev.name = "attribute_updated" /\ ev.attrid = XiaomiHeartbeat
    THEN Xiaomi_heartbeat(st, ev.ieee, ev.endpoint_id, ev.value)
    ELSE st

\* application.listener_event(name, ...): each listener in turn, the
\* persistence listener, then the specialization listener; each runs to
\* completion before the emitter goes on.
listener_event(st, ev) == SpecializationListener(Persist(st, ev), ev)

\* The loop of Cluster.handle_message left after its first pair
ReportAttributes_FirstOnly(st, ieee, endpoint_id, is_input, cluster_id, attrs) ==
    IF attrs = <<>> THEN st
    ELSE update_attribute(st, ieee, endpoint_id, is_input, cluster_id, Head(attrs)[1], Head(attrs)[2])

RECURSIVE ReportAttributes(_, _, _, _, _, _)
\* for attr in args[0]: await self._update_attribute(attr.attrid, attr.value.value)
ReportAttributes(st, ieee, endpoint_id, is_input, cluster_id, attrs) ==
    IF attrs = <<>> THEN st
    ELSE ReportAttributes(
            update_attribute(st, ieee, endpoint_id, is_input, cluster_id, Head(attrs)[1], Head(attrs)[2]),
            ieee, endpoint_id, is_input, cluster_id, Tail(attrs))

\* Cluster.handle_message without the test of is_reply
cluster_handle_message_HandlesReplies(st, ieee, endpoint_id, is_input, msg) ==
    Let(listener_event(st,
            [Event(IF msg.command_id <= 255 THEN "zdo_command" ELSE "cluster_command", ieee) EXCEPT
                !.endpoint_id = endpoint_id, !.cluster_id = msg.cluster, !.is_input = is_input,
                !.command_id = IF msg.command_id <= 255 THEN msg.command_id
                               ELSE msg.command_id - 256]),
        LAMBDA st2 :
            IF msg.command_id = 10
            THEN ReportAttributes(st2, ieee, endpoint_id, is_input, msg.cluster, msg.args)
            ELSE st2)

\* Cluster.handle_message
cluster_handle_message(st, ieee, endpoint_id, is_input, msg) ==
    IF msg.is_reply THEN st
    ELSE Let(listener_event(st,
                [Event(IF msg.command_id <= 255 THEN "zdo_command" ELSE "cluster_command", ieee) EXCEPT
                    !.endpoint_id = endpoint_id, !.cluster_id = msg.cluster, !.is_input = is_input,
                    !.command_id = IF msg.command_id <= 255 THEN msg.command_id
                                   ELSE msg.command_id - 256]),
             LAMBDA st2 :
                IF msg.command_id = 10
                THEN ReportAttributes(st2, ieee, endpoint_id, is_input, msg.cluster, msg.args)
                ELSE st2)

\* Whether an endpoint of the device holds a cluster of the id, in either map
HoldsCluster(dev, endpoint_id, cluster_id) ==
    \/ HasCluster(GetEndpoint(dev, endpoint_id).in_clusters, cluster_id)
    \/ HasCluster(GetEndpoint(dev, endpoint_id).out_clusters, cluster_id)

\* Endpoint.handle_message with the two maps looked up in the other order
endpoint_handle_message_OutputFirst(st, ieee, msg) ==
    LET ep == GetEndpoint(st.dev, msg.endpoint)
        known == HoldsCluster(st.dev, msg.endpoint, msg.cluster)
        unknown_cluster_message == [Event("unknown_cluster_message", ieee) EXCEPT
                                        !.endpoint_id = msg.endpoint, !.command_id = msg.command_id,
                                        !.held = known]
    IN  cluster_handle_message(
            IF known THEN st
            ELSE listener_event(
                    [st EXCEPT !.dev = SetEndpoint(st.dev, add_cluster(ep, msg.cluster, TRUE)),
                               !.emitted = endpoint_listener_event(st, unknown_cluster_message).emitted],
                    Event("device_updated", ieee)),
            ieee, msg.endpoint, ~HasCluster(ep.out_clusters, msg.cluster), msg)

\* Endpoint.handle_message.  held of the unknown_cluster_message is whether
\* the endpoint holds the cluster when the event is announced.
endpoint_handle_message(st, ieee, msg) ==
    LET ep == GetEndpoint(st.dev, msg.endpoint)
        known == HoldsCluster(st.dev, msg.endpoint, msg.cluster)
        unknown_cluster_message == [Event("unknown_cluster_message", ieee) EXCEPT
                                        !.endpoint_id = msg.endpoint, !.command_id = msg.command_id,
                                        !.held = known]
    IN  cluster_handle_message(
            IF known THEN st
            ELSE listener_event(
                    [st EXCEPT !.dev = SetEndpoint(st.dev, add_cluster(ep, msg.cluster, TRUE)),
                               !.emitted = endpoint_listener_event(st, unknown_cluster_message).emitted],
                    Event("device_updated", ieee)),
            ieee, msg.endpoint,
            HasCluster(ep.in_clusters, msg.cluster) \/ ~HasCluster(ep.out_clusters, msg.cluster),
            msg)

\* ZDO.handle_message: the object of endpoint 0 handles the messages of
\* device management; it keeps no clusters and leaves the device as it is
zdo_handle_message(st, ieee, msg) == st

\* Device.handle_message: endpoint = self.endpoints[destinationEndpoint];
\* await endpoint.handle_message(...)
forward_message(st, ieee, msg) ==
    IF GetEndpoint(st.dev, msg.endpoint).zdo THEN zdo_handle_message(st, ieee, msg)
    ELSE endpoint_handle_message(st, ieee, msg)

----------------------------------------------------------------------------
(* Cluster.read_attributes, Cluster.update_attribute_local and               *)
(* Cluster.write_attributes.  A reference to an attribute is its id or its   *)
(* name; success, failure and orig_attributes are dicts keyed by references  *)
(* and ids.                                                                  *)

\* The names a caller may use; the last is the name of no attribute
AttrNames == <<"zcl_version", "identify_time", "on_off", "on_time", "no_such_attribute">>

\* A reference by name (isinstance(attribute, str)) and a reference by id
ByName(name) == [str |-> TRUE, val |-> CHOOSE k \in 1..Len(AttrNames) : AttrNames[k] = name]
ById(attrid) == [str |-> FALSE, val |-> attrid]

\* d[key] = value
DictPut(d, key, value) == [k \in (DOMAIN d) \cup {key} |-> IF k = key THEN value ELSE d[k]]

\* The cluster (endpoint_id, is_input, cluster_id) of a device
GetCluster(dev, endpoint_id, is_input, cluster_id) ==
    LET ep == GetEndpoint(dev, endpoint_id)
    IN  IF is_input THEN ep.in_clusters[ClusterIndex(ep.in_clusters, cluster_id)]
        ELSE ep.out_clusters[ClusterIndex(ep.out_clusters, cluster_id)]

\* self.attributes: the table of the cluster's class.  Cluster itself has no
\* attributes and no _attridx: reading either is an AttributeError.
HasDefinition(c) == c.class # "Cluster"
attributes(c) == IF c.class = "registered" THEN RegistryAttributes(c.cluster_id) ELSE <<>>

\* name in self._attridx, and self._attridx[name]
InAttridx(c, ref) == \E a \in DOMAIN attributes(c) : attributes(c)[a].name = AttrNames[ref.val]
attridx(c, ref) == CHOOSE a \in DOMAIN attributes(c) : attributes(c)[a].name = AttrNames[ref.val]

\* if isinstance(attribute, str): attrid = self._attridx[attribute]
\* else: attrid = attribute.  Resolvable: the lookup does not raise.
Resolvable(c, ref) == ~ref.str \/ (HasDefinition(c) /\ InAttridx(c, ref))
Resolve(c, ref) == IF ref.str THEN attridx(c, ref) ELSE ref.val

RECURSIVE ResolveAttributes(_, _, _)
\* read_attributes, its first loop: acc = [raised, ids, orig] with ids the
\* list attribute_ids and orig the dict orig_attributes
ResolveAttributes(c, refs, acc) ==
    IF refs = <<>> THEN acc
    ELSE IF ~Resolvable(c, Head(refs)) THEN [acc EXCEPT !.raised = TRUE]
    ELSE ResolveAttributes(c, Tail(refs),
            [acc EXCEPT !.ids = Append(@, Resolve(c, Head(refs))),
                        !.orig = DictPut(@, Resolve(c, Head(refs)), Head(refs))])

RECURSIVE CacheSplit(_, _, _, _)
\* read_attributes with allow_cache: for idx, attribute in
\* enumerate(attribute_ids): a cached id goes to success under the caller's
\* reference attributes[idx], another to to_read.  acc = [success, to_read]
CacheSplit(cache, refs, ids, acc) ==
    IF ids = <<>> THEN acc
    ELSE CacheSplit(cache, Tail(refs), Tail(ids),
            IF Head(ids) \in DOMAIN cache
            THEN [acc EXCEPT !.success = DictPut(@, Head(refs), cache[Head(ids)])]
            ELSE [acc EXCEPT !.to_read = Append(@, Head(ids))])

\* The locals of a read_attributes call: the cluster it is called on, its
\* arguments, and orig_attributes, to_read, success and failure
NoResult == [kind |-> "none", status |-> None, records |-> <<>>]
NoRead == [endpoint_id |-> None, is_input |-> FALSE, cluster_id |-> None, refs |-> <<>>,
           allow_cache |-> FALSE, orig |-> <<>>, to_read |-> <<>>, success |-> <<>>,
           failure |-> <<>>, result |-> NoResult]

\* read_attributes without the cache: to_read = attribute_ids
ToReadAll(ids) == [success |-> <<>>, to_read |-> ids]

\* read_attributes with allow_cache treated as False
read_attributes_start_NoCache(st, endpoint_id, is_input, cluster_id, refs, allow_cache) ==
    LET c == GetCluster(st.dev, endpoint_id, is_input, cluster_id)
        res == ResolveAttributes(c, refs, [raised |-> FALSE, ids |-> <<>>, orig |-> <<>>])
        split == ToReadAll(res.ids)
        rd == [NoRead EXCEPT !.endpoint_id = endpoint_id, !.is_input = is_input,
                             !.cluster_id = cluster_id, !.refs = refs, !.allow_cache = allow_cache,
                             !.orig = res.orig, !.to_read = split.to_read,
                             !.success = split.success]
    IN  IF res.raised THEN [st |-> st, read |-> rd, done |-> TRUE, raised |-> TRUE]
        ELSE IF split.to_read = <<>> THEN [st |-> st, read |-> rd, done |-> TRUE, raised |-> FALSE]
        ELSE [st |-> [st EXCEPT !.sent = Append(@, Frame("request", endpoint_id, cluster_id, TRUE, 0,
                                                         split.to_read))],
              read |-> rd, done |-> FALSE, raised |-> FALSE]

\* read_attributes (raw=False) up to its await, or to its return when there
\* is nothing to read: [st, read, done, raised]
read_attributes_start(st, endpoint_id, is_input, cluster_id, refs, allow_cache) ==
    LET c == GetCluster(st.dev, endpoint_id, is_input, cluster_id)
        res == ResolveAttributes(c, refs, [raised |-> FALSE, ids |-> <<>>, orig |-> <<>>])
        split == IF allow_cache
                 THEN CacheSplit(c.cache, refs, res.ids, [success |-> <<>>, to_read |-> <<>>])
                 ELSE ToReadAll(res.ids)
        rd == [NoRead EXCEPT !.endpoint_id = endpoint_id, !.is_input = is_input,
                             !.cluster_id = cluster_id, !.refs = refs, !.allow_cache = allow_cache,
                             !.orig = res.orig, !.to_read = split.to_read,
                             !.success = split.success]
    IN  IF res.raised THEN [st |-> st, read |-> rd, done |-> TRUE, raised |-> TRUE]
        ELSE IF split.to_read = <<>> THEN [st |-> st, read |-> rd, done |-> TRUE, raised |-> FALSE]
        ELSE [st |-> [st EXCEPT !.sent = Append(@, Frame("request", endpoint_id, cluster_id, TRUE, 0,
                                                         split.to_read))],
              read |-> rd, done |-> FALSE, raised |-> FALSE]

RECURSIVE DefaultResponse(_, _, _)
\* for attrid in to_read: failure[orig_attributes[attrid]] = result[0]
DefaultResponse(rd, to_read, status) ==
    IF to_read = <<>> THEN rd
    ELSE DefaultResponse([rd EXCEPT !.failure = DictPut(@, rd.orig[Head(to_read)], status)],
                         Tail(to_read), status)

RECURSIVE ReadRecords(_, _, _, _)
\* for record in result[0]: orig_attributes[record.attrid] is a KeyError for
\* an id that was not asked for; a record of status 0 goes to the cache and
\* to success, another to failure
ReadRecords(st, ieee, rd, records) ==
    IF records = <<>> THEN [st |-> st, read |-> rd, done |-> TRUE, raised |-> FALSE]
    ELSE IF Head(records).attrid \notin DOMAIN rd.orig
    THEN [st |-> st, read |-> rd, done |-> TRUE, raised |-> TRUE]
    ELSE IF Head(records).status = 0
    THEN ReadRecords(update_attribute(st, ieee, rd.endpoint_id, rd.is_input, rd.cluster_id,
                                      Head(records).attrid, Head(records).value),
                     ieee,
                     [rd EXCEPT !.success = DictPut(@, rd.orig[Head(records).attrid],
                                                    Head(records).value)],
                     Tail(records))
    ELSE ReadRecords(st, ieee,
                     [rd EXCEPT !.failure = DictPut(@, rd.orig[Head(records).attrid],
                                                    Head(records).status)],
                     Tail(records))

\* read_attributes from the end of its request on.  result.kind is "raise"
\* (the request failed), "default" (result[0] is the status of a default
\* response) or "records" (result[0] is a list of read attribute records).
read_attributes_reply(st, ieee, rd, result) ==
    CASE result.kind = "raise" -> [st |-> st, read |-> rd, done |-> TRUE, raised |-> TRUE]
      [] result.kind = "default" ->
            [st |-> st, read |-> DefaultResponse(rd, rd.to_read, result.status),
             done |-> TRUE, raised |-> FALSE]
      [] OTHER -> ReadRecords(st, ieee, rd, result.records)

\* Cluster.update_attribute_local
update_attribute_local(st, ieee, endpoint_id, is_input, cluster_id, ref, value) ==
    LET c == GetCluster(st.dev, endpoint_id, is_input, cluster_id)
    IN  IF ~Resolvable(c, ref) THEN [st |-> st, raised |-> TRUE]
        ELSE [st |-> update_attribute(st, ieee, endpoint_id, is_input, cluster_id,
                                      Resolve(c, ref), value),
              raised |-> FALSE]

\* python_type(value): the value is in the range of the attribute's declared
\* type; otherwise the constructor raises ValueError
InRange(type, value) ==
    CASE type = "Bool" -> value \in 0..1
      [] type = "uint8_t" -> value \in 0..255
      [] type = "uint16_t" -> value \in 0..65535
      [] OTHER -> FALSE

\* The locals of a write_attributes call: the cluster it is called on and its
\* arguments
NoWrite == [endpoint_id |-> None, is_input |-> FALSE, cluster_id |-> None, batch |-> <<>>,
            is_report |-> FALSE]

RECURSIVE WriteArgs(_, _, _)
\* write_attributes, its loop over attributes.items(): acc = [raised, args].
\* A name is looked up in _attridx and the id in self.attributes (an
\* AttributeError on a Cluster without definition); an id that is not defined
\* is skipped, and so is a value whose coercion raises ValueError.
WriteArgs(c, batch, acc) ==
    IF batch = <<>> THEN acc
    ELSE IF ~HasDefinition(c) \/ ~Resolvable(c, Head(batch)[1]) THEN [acc EXCEPT !.raised = TRUE]
    ELSE IF Resolve(c, Head(batch)[1]) \notin DOMAIN attributes(c)
    THEN WriteArgs(c, Tail(batch), acc)
    ELSE IF ~InRange(attributes(c)[Resolve(c, Head(batch)[1])].type, Head(batch)[2])
    THEN WriteArgs(c, Tail(batch), acc)
    ELSE WriteArgs(c, Tail(batch),
            [acc EXCEPT !.args = Append(@, [attrid |-> Resolve(c, Head(batch)[1]),
                                            type |-> attributes(c)[Resolve(c, Head(batch)[1])].type,
                                            value |-> Head(batch)[2]])])

\* Cluster.write_attributes up to the frame it sends: a report goes out by
\* self.reply(False, 0x01, ...), a write by self.request(True, 0x02, ...)
write_attributes(st, endpoint_id, is_input, cluster_id, batch, is_report) ==
    LET c == GetCluster(st.dev, endpoint_id, is_input, cluster_id)
        w == WriteArgs(c, batch, [raised |-> FALSE, args |-> <<>>])
    IN  IF w.raised THEN [st |-> st, done |-> TRUE, raised |-> TRUE]
        ELSE IF is_report
        THEN [st |-> [st EXCEPT !.sent = Append(@, Frame("reply", endpoint_id, cluster_id, FALSE, 1,
                                                         w.args))],
              done |-> TRUE, raised |-> FALSE]
        ELSE [st |-> [st EXCEPT !.sent = Append(@, Frame("request", endpoint_id, cluster_id, TRUE, 2,
                                                         w.args))],
              done |-> FALSE, raised |-> FALSE]

----------------------------------------------------------------------------
(* Inputs: the replies of the network and the inbound messages *)

\* Active_EP_rsp: a failure (every try timed out, or a non-zero status), or
\* status 0 with the list of active endpoints
EpLists == {<<1>>, <<1, 2>>}
ActiveEpReplies == {[ok |-> FALSE, eps |-> <<>>]} \cup {[ok |-> TRUE, eps |-> l] : l \in EpLists}

\* Simple_Desc_rsp: a failure, or status 0 with a descriptor.  The third
\* descriptor names a profile that is not in PROFILES.
SimpleDescs ==
    {[profile |-> 260, device_type |-> 771, input_clusters |-> <<0>>, output_clusters |-> <<6>>],
     [profile |-> 260, device_type |-> 65533, input_clusters |-> <<6>>, output_clusters |-> <<>>],
     [profile |-> 1, device_type |-> 771, input_clusters |-> <<0>>, output_clusters |-> <<>>]}
SimpleDescReplies ==
    {[ok |-> FALSE, sd |-> [profile |-> None, device_type |-> None,
                            input_clusters |-> <<>>, output_clusters |-> <<>>]]}
    \cup {[ok |-> TRUE, sd |-> d] : d \in SimpleDescs}

\* Node_Desc_rsp: a failure, or status 0 with the manufacturer code
NodeDescReplies == {[ok |-> FALSE, manufacturer_code |-> None]}
                   \cup {[ok |-> TRUE, manufacturer_code |-> m] : m \in Manufacturers}

NoMessage == [endpoint |-> None, cluster |-> None, is_reply |-> FALSE, command_id |-> None, args |-> <<>>]

\* Inbound frames as deserialize returns them: (endpoint, cluster, is_reply,
\* command id, args).  Attribute reports (general command 0x0a) carry a list
\* of (attribute id, value); 256 + 0 is a cluster command.
Message(e, c, is_reply, command_id, args) ==
    [endpoint |-> e, cluster |-> c, is_reply |-> is_reply, command_id |-> command_id, args |-> args]

\* The lists of attribute references given to read_attributes
RefLists ==
    {<<ById(0)>>, <<ByName("on_off")>>, <<ById(0), ById(16385)>>, <<ByName("on_off"), ById(0)>>,
     <<ByName("no_such_attribute")>>, <<>>}

\* A read attribute record: status 0 with a value, or the status
\* UNSUPPORTED_ATTRIBUTE (0x86)
ReadAttributeRecord(attrid, status, value) == [attrid |-> attrid, status |-> status, value |-> value]
RecordsOf(attrid) ==
    {ReadAttributeRecord(attrid, 0, 1), ReadAttributeRecord(attrid, 0, 2),
     ReadAttributeRecord(attrid, 134, None)}

RECURSIVE RecordLists(_)
\* The responses that carry one record for every id of the request, in order
RecordLists(to_read) ==
    IF to_read = <<>> THEN {<<>>}
    ELSE {<<r>> \o l : r \in RecordsOf(Head(to_read)), l \in RecordLists(Tail(to_read))}

\* What the request of read_attributes ends with: an exception (no reply), a
\* default response, records for the ids asked for, or a record for an id
\* that was not asked for
ReadResults(to_read) ==
    {[kind |-> "raise", status |-> None, records |-> <<>>],
     [kind |-> "default", status |-> 1, records |-> <<>>],
     [kind |-> "records", status |-> None, records |-> <<ReadAttributeRecord(9, 0, 1)>>]}
    \cup {[kind |-> "records", status |-> None, records |-> l] : l \in RecordLists(to_read)}

\* The references and values given to update_attribute_local
LocalUpdates == {<<ByName("on_off"), 1>>, <<ById(16385), 2>>, <<ByName("no_such_attribute"), 1>>}

\* The mappings given to write_attributes: (reference, value) in order.  70000
\* is no uint16_t and 7 is the id of no attribute.
WriteBatches ==
    {<<<<ById(0), 1>>>>,
     <<<<ById(0), 1>>, <<ById(16385), 70000>>>>,
     <<<<ById(16385), 70000>>, <<ByName("on_off"), 1>>>>,
     <<<<ById(7), 1>>, <<ById(0), 1>>>>}

Messages ==
    {Message(1, 6, FALSE, 10, <<<<0, 1>>, <<5, 1>>>>),
     Message(1, 0, FALSE, 10, <<<<0, 1>>, <<0, 2>>>>),
     Message(1, 0, FALSE, 10, <<>>),
     Message(1, 6, FALSE, 10, <<<<XiaomiHeartbeat, 256 * XiaomiType_on_off + 1>>>>),
     Message(1, 0, TRUE, 10, <<<<0, 2>>>>),
     Message(1, 0, FALSE, 256, <<>>)}

----------------------------------------------------------------------------
(* Device.initialize and Endpoint.initialize *)

\* A coroutine: where it is suspended (pc), what it is (kind: Device.initialize
\* or Device.handle_message), its arguments (silent; probe: called by
\* get_device; msg) and its locals (cur, iter: the endpoint being initialized
\* and the keys still to visit).  start_status and ae record the status the
\* device had when initialize was called and how its discovery request ended.
IdleTask == [pc |-> "idle", kind |-> "none", silent |-> FALSE, probe |-> FALSE,
             cur |-> None, iter |-> <<>>, msg |-> NoMessage,
             start_status |-> None, ae |-> "none", read |-> NoRead, write |-> NoWrite,
             tries |-> 0, size |-> 0]

\* Endpoint.initialize up to its await: the status is set and the request sent
endpoint_initialize_start(dev, endpoint_id) ==
    SetEndpoint(dev, [GetEndpoint(dev, endpoint_id) EXCEPT !.status = EpStatus_INITIALIZING])

\* Endpoint.initialize from the reply on: [dev, raised], raised when
\* PROFILES[self.profile_id] is a KeyError, which no handler catches
endpoint_initialize_reply(dev, endpoint_id, reply) ==
    LET ep == GetEndpoint(dev, endpoint_id)
        sd == reply.sd
    IN  IF ~reply.ok THEN [dev |-> dev, raised |-> FALSE]
        ELSE IF sd.profile \notin PROFILES
        THEN [dev |-> SetEndpoint(dev, [ep EXCEPT !.profile_id = sd.profile,
                                                 !.device_type = [raw |-> sd.device_type, enum |-> FALSE]]),
              raised |-> TRUE]
        ELSE LET ep1 == [ep EXCEPT !.profile_id = sd.profile,
                                   !.device_type = ResolveDeviceType(sd.profile, sd.device_type)]
                 ep2 == add_clusters(ep1, sd.input_clusters, TRUE)
                 ep3 == add_clusters(ep2, sd.output_clusters, FALSE)
             IN  [dev |-> SetEndpoint(dev, [ep3 EXCEPT !.status = EpStatus_INITIALIZED]),
                  raised |-> FALSE]

\* Device.initialize: if await self._discover_endpoints(): self.status = ENDPOINTS_INITED
SetDiscovered(dev, discovered) ==
    IF discovered THEN [dev EXCEPT !.status = Status_ENDPOINTS_INITED] ELSE dev

\* Device.initialize with an else branch that falls back to NEW
AfterManufacturer_Regress(dev, code) ==
    IF code # None THEN [dev EXCEPT !.status = Status_INITIALIZED]
    ELSE [dev EXCEPT !.status = Status_NEW]

\* Device.initialize: if await self.get_manufacturer_code() is not None:
\*     self.status = Status.INITIALIZED
AfterManufacturer(dev, code) ==
    IF code # None THEN [dev EXCEPT !.status = Status_INITIALIZED] ELSE dev

\* Device.initialize without the test of silent
InitFinish_IgnoresSilent(st, ieee, t) ==
    [st |-> listener_event(st, Event("device_initialized", ieee)),
     task |-> [t EXCEPT !.pc = "idle"], done |-> TRUE, raised |-> FALSE]

\* Device.initialize: if not silent: listener_event('device_initialized', self)
InitFinish(st, ieee, t) ==
    [st |-> IF ~t.silent THEN listener_event(st, Event("device_initialized", ieee)) ELSE st,
     task |-> [t EXCEPT !.pc = "idle"], done |-> TRUE, raised |-> FALSE]

\* Device.initialize from get_manufacturer_code on: a known code needs no
\* request; otherwise the coroutine awaits the node descriptor
InitTail(st, ieee, t) ==
    IF st.dev.manufacturer = None
    THEN [st |-> st, task |-> [t EXCEPT !.pc = "Node_Desc_req", !.cur = None, !.iter = <<>>],
          done |-> FALSE, raised |-> FALSE]
    ELSE InitFinish([st EXCEPT !.dev = AfterManufacturer(st.dev, st.dev.manufacturer)], ieee, t)

RECURSIVE DiscoverLoop(_, _, _, _)
\* _discover_endpoints: for endpoint_id in self.endpoints.keys(), ZDO skipped,
\* await self.endpoints[endpoint_id].initialize(); then return True
DiscoverLoop(st, ieee, t, queue) ==
    IF queue = <<>> THEN InitTail([st EXCEPT !.dev = SetDiscovered(st.dev, TRUE)], ieee, t)
    ELSE IF Head(queue) = 0 THEN DiscoverLoop(st, ieee, t, Tail(queue))
    ELSE [st |-> [st EXCEPT !.dev = endpoint_initialize_start(st.dev, Head(queue))],
          task |-> [t EXCEPT !.pc = "Simple_Desc_req", !.cur = Head(queue), !.iter = Tail(queue)],
          done |-> FALSE, raised |-> FALSE]

RECURSIVE add_endpoints(_, _)
\* for endpoint_id in epr[2]: self.add_endpoint(endpoint_id)
add_endpoints(dev, ids) ==
    IF ids = <<>> THEN dev ELSE add_endpoints(add_endpoint(dev, Head(ids)), Tail(ids))

\* Device.initialize up to its first await (or to its end)
InitStart(st, ieee, t) ==
    IF st.dev.status = Status_NEW
    THEN [st |-> st, task |-> [t EXCEPT !.pc = "Active_EP_req"], done |-> FALSE, raised |-> FALSE]
    ELSE InitTail(st, ieee, t)

\* _discover_endpoints from the reply to Active_EP_req on
OnActiveEp(st, ieee, t, reply) ==
    IF ~reply.ok
    THEN InitTail([st EXCEPT !.dev = SetDiscovered(st.dev, FALSE)], ieee, [t EXCEPT !.ae = "failed"])
    ELSE LET dev1 == add_endpoints(st.dev, reply.eps)
         IN  DiscoverLoop([st EXCEPT !.dev = dev1], ieee,
                          [t EXCEPT !.ae = "ok", !.size = Len(dev1.endpoints)], EndpointKeys(dev1))

\* get_manufacturer_code from the reply to Node_Desc_req on, then the rest of
\* Device.initialize
OnNodeDesc(st, ieee, t, reply) ==
    LET dev1 == IF reply.ok THEN [st.dev EXCEPT !.manufacturer = reply.manufacturer_code] ELSE st.dev
        code == IF reply.ok THEN dev1.manufacturer ELSE None
    IN  InitFinish([st EXCEPT !.dev = AfterManufacturer(dev1, code)], ieee, t)

\* The reply to Simple_Desc_req inside Device.initialize: the endpoint's
\* initialize ends and the loop of _discover_endpoints goes on.  The loop
\* iterates self.endpoints.keys(): when an endpoint was added to the dict
\* while it was suspended, its next step raises RuntimeError.
OnSimpleDescInit(st, ieee, t, reply) ==
    Let(endpoint_initialize_reply(st.dev, t.cur, reply),
        LAMBDA r :
            IF r.raised \/ Len(r.dev.endpoints) # t.size
            THEN [st |-> [st EXCEPT !.dev = r.dev], task |-> [t EXCEPT !.pc = "idle"],
                  done |-> TRUE, raised |-> TRUE]
            ELSE DiscoverLoop([st EXCEPT !.dev = r.dev], ieee, t, t.iter))

\* The reply to Simple_Desc_req inside Device.handle_message: device_updated,
\* then the message goes to the endpoint
OnSimpleDescMessage(st, ieee, t, reply) ==
    Let(endpoint_initialize_reply(st.dev, t.cur, reply),
        LAMBDA r :
            IF r.raised
            THEN [st |-> [st EXCEPT !.dev = r.dev], task |-> [t EXCEPT !.pc = "idle"],
                  done |-> TRUE, raised |-> TRUE]
            ELSE [st |-> forward_message(
                            listener_event([st EXCEPT !.dev = r.dev], Event("device_updated", ieee)),
                            ieee, t.msg),
                  task |-> [t EXCEPT !.pc = "idle"], done |-> TRUE, raised |-> FALSE])

----------------------------------------------------------------------------
(* PersistingListener.load: the graph a fresh application builds from the   *)
(* file.  g = [devs, failed]: the devices built so far, and whether a row   *)
(* raised (a missing device or endpoint, an endpoint id already present, a   *)
(* profile id not in PROFILES), which ends the load.                        *)

RECURSIVE LoadDeviceRows(_, _)
\* add_device(ieee, nwk, manufacturer); dev.status = INITIALIZED
LoadDeviceRows(g, rows) ==
    IF rows = <<>> THEN g
    ELSE LET r == Head(rows)
             ieee == convert_ieee(r[1])
             dev == [NewDevice(r[2], r[3]) EXCEPT !.status = Status_INITIALIZED]
         IN  LoadDeviceRows(
                [g EXCEPT !.devs = [j \in (DOMAIN g.devs) \cup {ieee} |->
                                        IF j = ieee THEN dev ELSE g.devs[j]]],
                Tail(rows))

RECURSIVE LoadEndpointRows(_, _)
LoadEndpointRows(g, rows) ==
    IF rows = <<>> \/ g.failed THEN g
    ELSE LET r == Head(rows)
             ieee == convert_ieee(r[1])
         IN  IF ieee \notin DOMAIN g.devs \/ HasEndpoint(g.devs[ieee], r[2]) \/ r[3] \notin PROFILES
             THEN [g EXCEPT !.failed = TRUE]
             ELSE LET dev == add_endpoint(g.devs[ieee], r[2])
                      ep == [GetEndpoint(dev, r[2]) EXCEPT
                                !.profile_id = r[3],
                                !.device_type = ResolveDeviceType(r[3], r[4]),
                                !.status = EpStatus_INITIALIZED]
                  IN  LoadEndpointRows([g EXCEPT !.devs[ieee] = SetEndpoint(dev, ep)], Tail(rows))

RECURSIVE LoadClusterRows(_, _)
LoadClusterRows(g, rows) ==
    IF rows = <<>> \/ g.failed THEN g
    ELSE LET r == Head(rows)
             ieee == convert_ieee(r[1])
         IN  IF ieee \notin DOMAIN g.devs \/ ~HasEndpoint(g.devs[ieee], r[2])
             THEN [g EXCEPT !.failed = TRUE]
             ELSE LET dev == g.devs[ieee]
                      ep == add_cluster(GetEndpoint(dev, r[2]), r[3], r[4] # 0)
                  IN  LoadClusterRows([g EXCEPT !.devs[ieee] = SetEndpoint(dev, ep)], Tail(rows))

RECURSIVE LoadAttributeRows(_, _)
LoadAttributeRows(g, rows) ==
    IF rows = <<>> \/ g.failed THEN g
    ELSE LET r == Head(rows)
             ieee == convert_ieee(r[1])
         IN  IF ieee \notin DOMAIN g.devs \/ ~HasEndpoint(g.devs[ieee], r[2])
             THEN [g EXCEPT !.failed = TRUE]
             ELSE LET dev == g.devs[ieee]
                      ep == add_cluster(GetEndpoint(dev, r[2]), r[3], TRUE)
                      ep2 == [ep EXCEPT !.in_clusters[ClusterIndex(ep.in_clusters, r[3])].cache =
                                            CachePut(@, r[4], r[5])]
                  IN  LoadAttributeRows([g EXCEPT !.devs[ieee] = SetEndpoint(dev, ep2)], Tail(rows))

\* PersistingListener.load: devices, then endpoints, then clusters, then attributes
load(file) ==
    LoadAttributeRows(
        LoadClusterRows(
            LoadEndpointRows(
                LoadDeviceRows([devs |-> <<>>, failed |-> FALSE], file.devices),
                file.endpoints),
            file.clusters),
        file.cluster_attributes)

----------------------------------------------------------------------------
(* The state machine *)

NoCrash == [in |-> FALSE, ieee |-> <<>>, name |-> "", pre |-> EmptyDb, post |-> EmptyDb]

\* The last run: the operation, its device and coroutine, whether the
\* coroutine ended (done) and whether by an exception (raised), and the status
\* of the Device object it worked on before and after the run.
NoLast == [op |-> "none", ieee |-> <<>>, task |-> IdleTask, done |-> TRUE, raised |-> FALSE,
           before |-> None, status |-> None, writes |-> <<>>, sent |-> <<>>]

\* No function of the zcl package was called
NoCall == [op |-> "none"]

\* A coroutine suspended beside the one that runs stays as it is; the record
\* of a call that ended is dropped
Beside == IF call.op = "coroutine" THEN call ELSE NoCall

Init ==
    /\ devices = <<>>
    /\ appDevices = {}
    /\ tasks = [i \in Ieees |-> IdleTask]
    /\ db = EmptyDb
    /\ phase = "running"
    /\ emitted = <<>>
    /\ commitLog = <<>>
    /\ last = NoLast
    /\ crash = NoCrash
    /\ steps = 0
    /\ call = NoCall

Running == phase = "running" /\ steps < MaxSteps

\* writes: the writes to attribute caches of the run; sent: the ZCL frames it sent
StartState(dev) == [dev |-> dev, db |-> db, emitted |-> <<>>, log |-> <<>>, writes |-> <<>>, sent |-> <<>>]

WithDevice(ieee, dev) == [j \in (DOMAIN devices) \cup {ieee} |-> IF j = ieee THEN dev ELSE devices[j]]
WithoutDevice(ieee) == [j \in (DOMAIN devices) \ {ieee} |-> devices[j]]

\* specialization.get_device after its silent initialize: a manufacturer in
\* SPECIALIZED_DEVICES gets a new object of the specialized class
GetDeviceResult(dev) ==
    IF dev.manufacturer \in SPECIALIZED_DEVICES THEN NewDevice(dev.nwk, dev.manufacturer) ELSE dev

\* The end of a run r of the coroutine t on device ieee.  When the run ends
\* the silent initialize of get_device, the application registers the device
\* get_device returns and announces device_joined.
Install(ieee, t, before, r, op) ==
    \E joined \in {r.done /\ t.probe /\ ~r.raised} :
    \E st \in {IF joined
                THEN listener_event([r.st EXCEPT !.dev = GetDeviceResult(r.st.dev)],
                                    Event("device_joined", ieee))
                ELSE r.st} :
        /\ devices' = IF r.done /\ t.probe /\ r.raised THEN WithoutDevice(ieee)
                      ELSE WithDevice(ieee, st.dev)
        /\ appDevices' = IF joined THEN appDevices \cup {ieee} ELSE appDevices
        /\ tasks' = [tasks EXCEPT ![ieee] = IF r.done THEN IdleTask ELSE r.task]
        /\ db' = st.db
        /\ emitted' = st.emitted
        /\ commitLog' = st.log
        /\ last' = [op |-> op, ieee |-> ieee, task |-> r.task, done |-> r.done,
                    raised |-> r.raised, before |-> before, status |-> r.st.dev.status,
                    writes |-> st.writes, sent |-> st.sent]
        /\ steps' = steps + 1
        /\ call' = Beside
        /\ UNCHANGED <<phase, crash>>

\* A device joins.  With the manufacturer code in the join, get_device builds
\* the Device at once; without it, get_device probes it with a silent initialize.
Join(ieee, nwk, manufacturer) ==
    /\ Running
    /\ ieee \notin DOMAIN devices
    /\ IF manufacturer # None
       THEN LET t == [IdleTask EXCEPT !.probe = TRUE]
            IN  Install(ieee, t, Status_NEW,
                        [st |-> StartState(NewDevice(nwk, manufacturer)), task |-> t,
                         done |-> TRUE, raised |-> FALSE],
                        "join")
       ELSE LET t == [IdleTask EXCEPT !.kind = "init", !.silent = TRUE, !.probe = TRUE,
                                      !.start_status = Status_NEW]
            IN  Install(ieee, t, Status_NEW,
                        InitStart(StartState(NewDevice(nwk, None)), ieee, t), "join")

\* zdo.request(..., tries=3, delay=2) of _discover_endpoints,
\* get_manufacturer_code and Endpoint.initialize: the frame is sent at most
\* Tries times.  tries of a coroutine counts the timeouts of the request it
\* awaits; an answer ends the request.
Tries == 3
RequestPcs == {"Active_EP_req", "Simple_Desc_req", "Node_Desc_req"}
Answered(t) == [t EXCEPT !.tries = 0]

\* Device.initialize(silent) of a registered device
StartInitialize(ieee, silent) ==
    /\ Running
    /\ ieee \in appDevices
    /\ tasks[ieee].pc = "idle"
    /\ LET t == [IdleTask EXCEPT !.kind = "init", !.silent = silent,
                                 !.start_status = devices[ieee].status]
       IN  Install(ieee, t, devices[ieee].status,
                   InitStart(StartState(devices[ieee]), ieee, t), "initialize")

ActiveEpReply(ieee, reply) ==
    /\ Running
    /\ tasks[ieee].pc = "Active_EP_req"
    /\ Install(ieee, tasks[ieee], devices[ieee].status,
               OnActiveEp(StartState(devices[ieee]), ieee, Answered(tasks[ieee]), reply), "initialize")

SimpleDescReplyInit(ieee, reply) ==
    /\ Running
    /\ tasks[ieee].pc = "Simple_Desc_req"
    /\ tasks[ieee].kind = "init"
    /\ Install(ieee, tasks[ieee], devices[ieee].status,
               OnSimpleDescInit(StartState(devices[ieee]), ieee, Answered(tasks[ieee]), reply),
               "initialize")

NodeDescReply(ieee, reply) ==
    /\ Running
    /\ tasks[ieee].pc = "Node_Desc_req"
    /\ Install(ieee, tasks[ieee], devices[ieee].status,
               OnNodeDesc(StartState(devices[ieee]), ieee, Answered(tasks[ieee]), reply), "initialize")

\* Device.handle_message: a message for an endpoint the device does not have
\* creates it and awaits its initialize; otherwise the endpoint gets the message
HandleMessage(ieee, msg) ==
    /\ Running
    /\ ieee \in appDevices
    /\ tasks[ieee].pc = "idle"
    /\ LET t == [IdleTask EXCEPT !.kind = "msg", !.msg = msg]
           st == StartState(devices[ieee])
       IN  IF ~HasEndpoint(devices[ieee], msg.endpoint)
           THEN Install(ieee, t, devices[ieee].status,
                    [st |-> [st EXCEPT !.dev = endpoint_initialize_start(
                                                    add_endpoint(st.dev, msg.endpoint), msg.endpoint)],
                     task |-> [t EXCEPT !.pc = "Simple_Desc_req", !.cur = msg.endpoint],
                     done |-> FALSE, raised |-> FALSE],
                    "handle_message")
           ELSE Install(ieee, t, devices[ieee].status,
                    [st |-> forward_message(st, ieee, msg), task |-> t,
                     done |-> TRUE, raised |-> FALSE],
                    "handle_message")

SimpleDescReplyMessage(ieee, reply) ==
    /\ Running
    /\ tasks[ieee].pc = "Simple_Desc_req"
    /\ tasks[ieee].kind = "msg"
    /\ Install(ieee, tasks[ieee], devices[ieee].status,
               OnSimpleDescMessage(StartState(devices[ieee]), ieee, Answered(tasks[ieee]), reply),
               "handle_message")

\* An attempt of the request the coroutine awaits times out and tries are
\* left: the frame is sent again
RequestRetry(ieee) ==
    /\ Running
    /\ tasks[ieee].pc \in RequestPcs
    /\ tasks[ieee].tries + 1 < Tries
    /\ tasks' = [tasks EXCEPT ![ieee].tries = @ + 1]
    /\ last' = [NoLast EXCEPT !.op = "retry", !.ieee = ieee, !.done = FALSE,
                              !.task = [tasks[ieee] EXCEPT !.tries = @ + 1],
                              !.before = devices[ieee].status, !.status = devices[ieee].status]
    /\ emitted' = <<>>
    /\ commitLog' = <<>>
    /\ steps' = steps + 1
    /\ UNCHANGED <<devices, appDevices, db, phase, crash, call>>

\* The last attempt of the request times out: the request raises in the
\* coroutine, which goes on as its except clause says
RequestFails(ieee) ==
    /\ Running
    /\ tasks[ieee].pc \in RequestPcs
    /\ tasks[ieee].tries + 1 = Tries
    /\ \E t \in {Answered(tasks[ieee])}, st \in {StartState(devices[ieee])} :
          Install(ieee, t, devices[ieee].status,
                  CASE t.pc = "Active_EP_req" -> OnActiveEp(st, ieee, t, [ok |-> FALSE, eps |-> <<>>])
                    [] t.pc = "Node_Desc_req" ->
                            OnNodeDesc(st, ieee, t, [ok |-> FALSE, manufacturer_code |-> None])
                    [] t.pc = "Simple_Desc_req" /\ t.kind = "init" ->
                            OnSimpleDescInit(st, ieee, t, CHOOSE r \in SimpleDescReplies : ~r.ok)
                    [] OTHER -> OnSimpleDescMessage(st, ieee, t, CHOOSE r \in SimpleDescReplies : ~r.ok),
                  "request_failed")

\* ControllerApplication.remove: the device leaves the application's devices
\* and device_removed is announced
Remove(ieee) ==
    /\ Running
    /\ ieee \in appDevices
    /\ tasks[ieee].pc = "idle"
    /\ \E st \in {listener_event(StartState(devices[ieee]), Event("device_removed", ieee))} :
           /\ devices' = WithoutDevice(ieee)
           /\ appDevices' = appDevices \ {ieee}
           /\ db' = st.db
           /\ emitted' = st.emitted
           /\ commitLog' = st.log
           /\ last' = [NoLast EXCEPT !.op = "remove", !.ieee = ieee]
    /\ steps' = steps + 1
    /\ UNCHANGED <<tasks, phase, crash, call>>

\* The process ends between two runs: what is in memory is gone, the file stays.
Stop ==
    /\ Running
    /\ devices' = <<>>
    /\ appDevices' = {}
    /\ tasks' = [i \in Ieees |-> IdleTask]
    /\ phase' = "stopped"
    /\ emitted' = <<>>
    /\ commitLog' = <<>>
    /\ last' = [NoLast EXCEPT !.op = "stop"]
    /\ crash' = NoCrash
    /\ steps' = steps + 1
    /\ UNCHANGED <<db, call>>

\* The process ends inside the last run, right after the k-th commit of its
\* handlers: the file holds what was committed then.
StopInSave(k) ==
    /\ Running
    /\ devices' = <<>>
    /\ appDevices' = {}
    /\ tasks' = [i \in Ieees |-> IdleTask]
    /\ phase' = "stopped"
    /\ db' = commitLog[k].at
    /\ emitted' = <<>>
    /\ commitLog' = <<>>
    /\ last' = [NoLast EXCEPT !.op = "stop", !.ieee = commitLog[k].ieee]
    /\ crash' = [in |-> TRUE, ieee |-> commitLog[k].ieee, name |-> commitLog[k].name,
                 pre |-> commitLog[k].pre, post |-> commitLog[k].post]
    /\ steps' = steps + 1
    /\ UNCHANGED call

\* A fresh application opens the file and loads it.
Load ==
    /\ phase = "stopped"
    /\ steps < MaxSteps
    /\ \E g \in {load(db)} :
           /\ devices' = g.devs
           /\ appDevices' = DOMAIN g.devs
           /\ phase' = IF g.failed THEN "load_failed" ELSE "running"
    /\ emitted' = <<>>
    /\ commitLog' = <<>>
    /\ last' = [NoLast EXCEPT !.op = "load"]
    /\ crash' = NoCrash
    /\ steps' = steps + 1
    /\ UNCHANGED <<tasks, db, call>>

----------------------------------------------------------------------------
(* The operations of a Cluster of a device loaded from the file *)

\* Cluster.read_attributes(attributes, allow_cache) on a cluster of the device
ReadAttributes(ieee, endpoint_id, is_input, cluster_id, refs, allow_cache) ==
    /\ Running
    /\ ieee \in appDevices
    /\ tasks[ieee].pc = "idle"
    /\ HasEndpoint(devices[ieee], endpoint_id)
    /\ HasCluster(IF is_input THEN GetEndpoint(devices[ieee], endpoint_id).in_clusters
                  ELSE GetEndpoint(devices[ieee], endpoint_id).out_clusters, cluster_id)
    /\ \E r \in {read_attributes_start(StartState(devices[ieee]), endpoint_id, is_input,
                                        cluster_id, refs, allow_cache)} :
          Install(ieee, IdleTask, devices[ieee].status,
                  [st |-> r.st,
                   task |-> [IdleTask EXCEPT !.kind = "read", !.read = r.read,
                                             !.pc = IF r.done THEN "idle" ELSE "Read_Attributes_req"],
                   done |-> r.done, raised |-> r.raised],
                  "read_attributes")

\* The request of a read_attributes ends
ReadAttributesReply(ieee, result) ==
    /\ Running
    /\ tasks[ieee].pc = "Read_Attributes_req"
    /\ \E r \in {read_attributes_reply(StartState(devices[ieee]), ieee, tasks[ieee].read, result)} :
          Install(ieee, tasks[ieee], devices[ieee].status,
                  [st |-> r.st,
                   task |-> [tasks[ieee] EXCEPT !.read = [r.read EXCEPT !.result = result],
                                                !.pc = "idle"],
                   done |-> r.done, raised |-> r.raised],
                  "read_attributes_reply")

\* Cluster.update_attribute_local(attr, value) on a cluster of the device
UpdateAttributeLocal(ieee, endpoint_id, is_input, cluster_id, ref, value) ==
    /\ Running
    /\ ieee \in appDevices
    /\ tasks[ieee].pc = "idle"
    /\ HasEndpoint(devices[ieee], endpoint_id)
    /\ HasCluster(IF is_input THEN GetEndpoint(devices[ieee], endpoint_id).in_clusters
                  ELSE GetEndpoint(devices[ieee], endpoint_id).out_clusters, cluster_id)
    /\ \E r \in {update_attribute_local(StartState(devices[ieee]), ieee, endpoint_id, is_input,
                                         cluster_id, ref, value)} :
          Install(ieee, IdleTask, devices[ieee].status,
                  [st |-> r.st, task |-> [IdleTask EXCEPT !.kind = "local"], done |-> TRUE,
                   raised |-> r.raised],
                  "update_attribute_local")

\* Cluster.write_attributes(attributes, is_report) on a cluster of the device
WriteAttributes(ieee, endpoint_id, is_input, cluster_id, batch, is_report) ==
    /\ Running
    /\ ieee \in appDevices
    /\ tasks[ieee].pc = "idle"
    /\ HasEndpoint(devices[ieee], endpoint_id)
    /\ HasCluster(IF is_input THEN GetEndpoint(devices[ieee], endpoint_id).in_clusters
                  ELSE GetEndpoint(devices[ieee], endpoint_id).out_clusters, cluster_id)
    /\ \E r \in {write_attributes(StartState(devices[ieee]), endpoint_id, is_input, cluster_id,
                                   batch, is_report)} :
          Install(ieee, IdleTask, devices[ieee].status,
                  [st |-> r.st,
                   task |-> [IdleTask EXCEPT
                                !.kind = "write",
                                !.write = [endpoint_id |-> endpoint_id, is_input |-> is_input,
                                           cluster_id |-> cluster_id, batch |-> batch,
                                           is_report |-> is_report],
                                !.pc = IF r.done THEN "idle" ELSE "Write_Attributes_req"],
                   done |-> r.done, raised |-> r.raised],
                  "write_attributes")

\* The request of a write_attributes ends: its result is returned
WriteAttributesReply(ieee) ==
    /\ Running
    /\ tasks[ieee].pc = "Write_Attributes_req"
    /\ Install(ieee, tasks[ieee], devices[ieee].status,
               [st |-> StartState(devices[ieee]), task |-> [tasks[ieee] EXCEPT !.pc = "idle"],
                done |-> TRUE, raised |-> FALSE],
               "write_attributes_reply")

\* endpoint.add_cluster(cluster_id, is_input) on an endpoint of the device;
\* call holds the endpoint before the call and the cluster returned
AddCluster(ieee, endpoint_id, cluster_id, is_input) ==
    /\ ieee \in DOMAIN devices
    /\ HasEndpoint(devices[ieee], endpoint_id)
    /\ \E ep \in {add_cluster(GetEndpoint(devices[ieee], endpoint_id), cluster_id, is_input)} :
          /\ devices' = [devices EXCEPT ![ieee] = SetEndpoint(@, ep)]
          /\ call' = [op |-> "add_cluster", cluster_id |-> cluster_id, is_input |-> is_input,
                      before |-> GetEndpoint(devices[ieee], endpoint_id),
                      result |-> IF is_input
                                 THEN ep.in_clusters[ClusterIndex(ep.in_clusters, cluster_id)]
                                 ELSE ep.out_clusters[ClusterIndex(ep.out_clusters, cluster_id)]]
    /\ last' = [NoLast EXCEPT !.op = "add_cluster", !.ieee = ieee]
    /\ emitted' = <<>>
    /\ commitLog' = <<>>
    /\ steps' = steps + 1
    /\ UNCHANGED <<appDevices, tasks, db, phase, crash>>

Next ==
    \/ \E i \in Ieees, n \in Nwks, m \in Manufacturers \cup {None} : Join(i, n, m)
    \/ \E i \in Ieees, s \in BOOLEAN : StartInitialize(i, s)
    \/ \E i \in Ieees, r \in ActiveEpReplies : ActiveEpReply(i, r)
    \/ \E i \in Ieees, r \in SimpleDescReplies : SimpleDescReplyInit(i, r)
    \/ \E i \in Ieees, r \in NodeDescReplies : NodeDescReply(i, r)
    \/ \E i \in Ieees, m \in Messages : HandleMessage(i, m)
    \/ \E i \in Ieees, r \in SimpleDescReplies : SimpleDescReplyMessage(i, r)
    \/ \E i \in Ieees : Remove(i)
    \/ Stop
    \/ \E k \in 1..Len(commitLog) : StopInSave(k)
    \/ Load

Spec == Init /\ [][Next]_vars

----------------------------------------------------------------------------
(* A device on its clusters: the application has loaded a file with one     *)
(* device, whose endpoint 1 has the input clusters OnOff (6) and 1000 (a    *)
(* cluster with no definition) and the output cluster Identify (3); its     *)
(* clusters are read, written and reported.                                 *)

ClusterDevice == <<0, 1>>
ClusterTargets == {<<TRUE, 6>>, <<TRUE, 1000>>, <<FALSE, 3>>}

ClusterDb(manufacturer) ==
    [devices |-> <<<<adapt_ieee(ClusterDevice), 99, manufacturer>>>>,
     endpoints |-> <<<<adapt_ieee(ClusterDevice), 1, 260, 771>>>>,
     clusters |-> <<<<adapt_ieee(ClusterDevice), 1, 6, 1>>, <<adapt_ieee(ClusterDevice), 1, 1000, 1>>,
                    <<adapt_ieee(ClusterDevice), 1, 3, 0>>>>,
     cluster_attributes |-> <<>>]

InitCluster ==
    /\ \E m \in {OtherManufacturer, VENDOR_XIAOMI} :
          /\ db = ClusterDb(m)
          /\ devices = load(ClusterDb(m)).devs
    /\ appDevices = {ClusterDevice}
    /\ tasks = [i \in Ieees |-> IdleTask]
    /\ phase = "running"
    /\ emitted = <<>>
    /\ commitLog = <<>>
    /\ last = [NoLast EXCEPT !.op = "load"]
    /\ crash = NoCrash
    /\ steps = 0
    /\ call = NoCall

ClusterRunning == steps < MaxClusterSteps

\* The clusters asked of add_cluster, (cluster_id, is_input): a registered
\* one the endpoint holds, the same as an output cluster, one of no
\* definition, and the ends of the range of the manufacturer specific
\* clusters
AddClusterTargets == {<<6, TRUE>>, <<6, FALSE>>, <<7, TRUE>>, <<64512, TRUE>>, <<65535, FALSE>>}

NextCluster ==
    \/ \E t \in ClusterTargets, refs \in RefLists, allow_cache \in BOOLEAN :
            ClusterRunning /\ ReadAttributes(ClusterDevice, 1, t[1], t[2], refs, allow_cache)
    \/ \E r \in ReadResults(tasks[ClusterDevice].read.to_read) :
            ClusterRunning /\ ReadAttributesReply(ClusterDevice, r)
    \/ \E t \in ClusterTargets, u \in LocalUpdates :
            ClusterRunning /\ UpdateAttributeLocal(ClusterDevice, 1, t[1], t[2], u[1], u[2])
    \/ \E m \in Messages : ClusterRunning /\ HandleMessage(ClusterDevice, m)
    \/ \E t \in ClusterTargets, b \in WriteBatches, is_report \in BOOLEAN :
            ClusterRunning /\ WriteAttributes(ClusterDevice, 1, t[1], t[2], b, is_report)
    \/ ClusterRunning /\ WriteAttributesReply(ClusterDevice)
    \/ \E t \in AddClusterTargets : ClusterRunning /\ AddCluster(ClusterDevice, 1, t[1], t[2])

SpecCluster == InitCluster /\ [][NextCluster]_vars

----------------------------------------------------------------------------
(* The discovery of one device with the attempts of its requests: an         *)
(* attempt is answered or times out.                                         *)

\* A reply to Active_EP_req that lists endpoint 0, and a message for
\* endpoint 0 (a device announce)
RetryEpReplies == ActiveEpReplies \cup {[ok |-> TRUE, eps |-> <<0, 1>>]}
RetryMessages == Messages \cup {Message(0, 19, FALSE, 19, <<>>)}

NextRetry ==
    \/ \E n \in Nwks, m \in Manufacturers \cup {None} : Join(ClusterDevice, n, m)
    \/ \E s \in BOOLEAN : StartInitialize(ClusterDevice, s)
    \/ RequestRetry(ClusterDevice)
    \/ RequestFails(ClusterDevice)
    \/ \E r \in RetryEpReplies : ActiveEpReply(ClusterDevice, r)
    \/ \E r \in SimpleDescReplies : SimpleDescReplyInit(ClusterDevice, r)
    \/ \E r \in NodeDescReplies : NodeDescReply(ClusterDevice, r)
    \/ \E m \in RetryMessages : HandleMessage(ClusterDevice, m)
    \/ \E r \in SimpleDescReplies : SimpleDescReplyMessage(ClusterDevice, r)

SpecRetry == Init /\ [][NextRetry]_vars

----------------------------------------------------------------------------
(* Two coroutines of one device.  While a Device.initialize or a             *)
(* Device.handle_message of the device is suspended on a request, the event  *)
(* loop starts a second one for the same device, which runs on the same      *)
(* Device object; call holds the second coroutine.  A request a coroutine    *)
(* awaits may also be cancelled.                                             *)

OverlapMessages == {Message(1, 0, FALSE, 256, <<>>), Message(2, 6, FALSE, 10, <<<<0, 1>>>>)}

Suspended(t) == [op |-> "coroutine", task |-> t]

\* The second coroutine ran from its start, or from the reply it awaited, to
\* its next await or its end
InstallSecond(ieee, r, op) ==
    /\ devices' = WithDevice(ieee, r.st.dev)
    /\ db' = r.st.db
    /\ emitted' = r.st.emitted
    /\ commitLog' = r.st.log
    /\ last' = [op |-> op, ieee |-> ieee, task |-> r.task, done |-> r.done,
                raised |-> r.raised, before |-> devices[ieee].status, status |-> r.st.dev.status,
                writes |-> r.st.writes, sent |-> r.st.sent]
    /\ call' = IF r.done THEN NoCall ELSE Suspended(r.task)
    /\ steps' = steps + 1
    /\ UNCHANGED <<appDevices, tasks, phase, crash>>

\* Device.initialize(silent) of a device with a suspended coroutine
SecondInitialize(ieee, silent) ==
    /\ Running
    /\ ieee \in appDevices
    /\ tasks[ieee].pc # "idle"
    /\ call = NoCall
    /\ LET t == [IdleTask EXCEPT !.kind = "init", !.silent = silent,
                                 !.start_status = devices[ieee].status]
       IN  InstallSecond(ieee, InitStart(StartState(devices[ieee]), ieee, t), "initialize")

\* Device.handle_message of a device with a suspended coroutine
SecondMessage(ieee, msg) ==
    /\ Running
    /\ ieee \in appDevices
    /\ tasks[ieee].pc # "idle"
    /\ call = NoCall
    /\ LET t == [IdleTask EXCEPT !.kind = "msg", !.msg = msg]
           st == StartState(devices[ieee])
       IN  IF ~HasEndpoint(devices[ieee], msg.endpoint)
           THEN InstallSecond(ieee,
                    [st |-> [st EXCEPT !.dev = endpoint_initialize_start(
                                                    add_endpoint(st.dev, msg.endpoint), msg.endpoint)],
                     task |-> [t EXCEPT !.pc = "Simple_Desc_req", !.cur = msg.endpoint],
                     done |-> FALSE, raised |-> FALSE],
                    "handle_message")
           ELSE InstallSecond(ieee,
                    [st |-> forward_message(st, ieee, msg), task |-> t,
                     done |-> TRUE, raised |-> FALSE],
                    "handle_message")

\* The replies to the requests of the second coroutine
SecondActiveEpReply(ieee, reply) ==
    /\ Running
    /\ call.op = "coroutine"
    /\ call.task.pc = "Active_EP_req"
    /\ ieee \in DOMAIN devices
    /\ InstallSecond(ieee, OnActiveEp(StartState(devices[ieee]), ieee, call.task, reply), "initialize")

SecondSimpleDescReply(ieee, reply) ==
    /\ Running
    /\ call.op = "coroutine"
    /\ call.task.pc = "Simple_Desc_req"
    /\ ieee \in DOMAIN devices
    /\ IF call.task.kind = "init"
       THEN InstallSecond(ieee, OnSimpleDescInit(StartState(devices[ieee]), ieee, call.task, reply),
                          "initialize")
       ELSE InstallSecond(ieee, OnSimpleDescMessage(StartState(devices[ieee]), ieee, call.task, reply),
                          "handle_message")

SecondNodeDescReply(ieee, reply) ==
    /\ Running
    /\ call.op = "coroutine"
    /\ call.task.pc = "Node_Desc_req"
    /\ ieee \in DOMAIN devices
    /\ InstallSecond(ieee, OnNodeDesc(StartState(devices[ieee]), ieee, call.task, reply), "initialize")

\* The request a coroutine awaits is cancelled: the await raises
\* asyncio.CancelledError.  Up to Python 3.7 CancelledError is an Exception,
\* which the except Exception of _discover_endpoints, get_manufacturer_code
\* and Endpoint.initialize catches as a failed request; from Python 3.8 on it
\* is a BaseException and ends the coroutine.
CancelRequest(ieee, caught) ==
    /\ Running
    /\ tasks[ieee].pc \in RequestPcs
    /\ \E t \in {Answered(tasks[ieee])}, st \in {StartState(devices[ieee])} :
          Install(ieee, t, devices[ieee].status,
                  CASE ~caught -> [st |-> st, task |-> [t EXCEPT !.pc = "idle"],
                                   done |-> TRUE, raised |-> TRUE]
                    [] caught /\ t.pc = "Active_EP_req" ->
                            OnActiveEp(st, ieee, t, [ok |-> FALSE, eps |-> <<>>])
                    [] caught /\ t.pc = "Node_Desc_req" ->
                            OnNodeDesc(st, ieee, t, [ok |-> FALSE, manufacturer_code |-> None])
                    [] caught /\ t.pc = "Simple_Desc_req" /\ t.kind = "init" ->
                            OnSimpleDescInit(st, ieee, t, CHOOSE r \in SimpleDescReplies : ~r.ok)
                    [] OTHER -> OnSimpleDescMessage(st, ieee, t, CHOOSE r \in SimpleDescReplies : ~r.ok),
                  "cancelled")

\* The application holds one device that has joined and is NEW: with the
\* manufacturer code get_device was given, or with none after a probe whose
\* requests failed
InitOverlap ==
    /\ \E n \in Nwks, m \in {OtherManufacturer, None} :
          devices = [j \in {ClusterDevice} |-> NewDevice(n, m)]
    /\ appDevices = {ClusterDevice}
    /\ tasks = [i \in Ieees |-> IdleTask]
    /\ db = EmptyDb
    /\ phase = "running"
    /\ emitted = <<>>
    /\ commitLog = <<>>
    /\ last = NoLast
    /\ crash = NoCrash
    /\ steps = 0
    /\ call = NoCall

NextOverlap ==
    \/ \E s \in BOOLEAN : StartInitialize(ClusterDevice, s)
    \/ \E r \in ActiveEpReplies : ActiveEpReply(ClusterDevice, r)
    \/ \E r \in SimpleDescReplies : SimpleDescReplyInit(ClusterDevice, r)
    \/ \E r \in NodeDescReplies : NodeDescReply(ClusterDevice, r)
    \/ \E m \in OverlapMessages : HandleMessage(ClusterDevice, m)
    \/ \E r \in SimpleDescReplies : SimpleDescReplyMessage(ClusterDevice, r)
    \/ \E s \in BOOLEAN : SecondInitialize(ClusterDevice, s)
    \/ \E m \in OverlapMessages : SecondMessage(ClusterDevice, m)
    \/ \E r \in ActiveEpReplies : SecondActiveEpReply(ClusterDevice, r)
    \/ \E r \in SimpleDescReplies : SecondSimpleDescReply(ClusterDevice, r)
    \/ \E r \in NodeDescReplies : SecondNodeDescReply(ClusterDevice, r)
    \/ \E c \in BOOLEAN : CancelRequest(ClusterDevice, c)

SpecOverlap == InitOverlap /\ [][NextOverlap]_vars

----------------------------------------------------------------------------
(* The vendor hooks: the device loaded from the file, of Xiaomi or of a      *)
(* manufacturer with no specialization, gets reports of its Basic and OnOff  *)
(* clusters and local updates of its Basic cluster.                          *)

XiaomiMessages ==
    {Message(1, ZCL_CLUSTER_ID_basic, FALSE, 10, <<<<AttrId_model, Model_sensor_magnet>>>>),
     Message(1, ZCL_CLUSTER_ID_basic, FALSE, 10, <<<<AttrId_model, Model_plug>>>>),
     Message(1, ZCL_CLUSTER_ID_on_off, FALSE, 10, <<<<AttrId_model, Model_sensor_magnet>>>>),
     Message(1, ZCL_CLUSTER_ID_basic, FALSE, 10, <<<<0, 1>>>>),
     Message(1, ZCL_CLUSTER_ID_on_off, FALSE, 10, <<<<XiaomiHeartbeat, 256 * XiaomiType_on_off + 1>>>>)}

XiaomiUpdates == {<<ById(AttrId_model), Model_sensor_magnet>>, <<ById(0), 3>>}

NextXiaomi ==
    \/ \E m \in XiaomiMessages : ClusterRunning /\ HandleMessage(ClusterDevice, m)
    \/ \E u \in XiaomiUpdates :
            ClusterRunning /\ UpdateAttributeLocal(ClusterDevice, 1, TRUE, ZCL_CLUSTER_ID_basic, u[1], u[2])

SpecXiaomi == InitCluster /\ [][NextXiaomi]_vars

----------------------------------------------------------------------------
(* The codec on its own: frames are built by Cluster.request and             *)
(* Cluster.reply on a cluster of the device, or arrive from the network,     *)
(* are decoded by zcl.deserialize and given to Cluster.handle_message.       *)
(* call holds the frame of the behaviour: how it was built, what             *)
(* deserialize returned for it and the events of its handling.               *)

CodecClusters == {3, 6, 1000}
ManufacturerCodes == {None, VENDOR_XIAOMI}
Sequences == {1, 255}

\* Values of the types of the schemas
ArgValues(type) ==
    CASE type = "uint8_t" -> {0, 200}
      [] type = "uint16_t" -> {7, 513}
      [] type = "List_uint16_t" -> {<<>>, <<513>>, <<1, 65535>>}

RECURSIVE ArgLists(_)
\* The argument lists that fit a schema
ArgLists(schema) ==
    IF schema = <<>> THEN {<<>>}
    ELSE {<<v>> \o rest : v \in ArgValues(Head(schema)), rest \in ArgLists(Tail(schema))}

\* Argument lists of a length that is not the schema's
WrongArgLists(schema) == {args \in {<<>>, <<7>>, <<7, 7>>} : Len(args) # Len(schema)}

\* The commands of the registry a cluster sends: (general, command_id, schema)
CommandsOf(table, general) == {<<general, id, table[id].schema>> : id \in DOMAIN table}
RequestCommands(cluster_id) ==
    CommandsOf(FoundationCommands, TRUE) \cup CommandsOf(RegistryServerCommands(cluster_id), FALSE)
ReplyCommands(cluster_id) ==
    CommandsOf(FoundationCommands, TRUE) \cup CommandsOf(RegistryClientCommands(cluster_id), FALSE)

\* Bytes that follow a frame
TrailingBytes == {<<>>, <<9>>, <<9, 3>>}

\* Frames from the network: frame controls of both frame types and
\* directions, with and without manufacturer code, and ids of known and
\* unknown commands
WireFrameControls == {0, 1, 8, 9, 5, 12}
WireCommands == {0, 1, 11, 66, 200}
WirePayloads == {<<>>, <<5, 1>>}
WireFrame(frame_control, tsn, command_id, payload) ==
    <<frame_control>> \o (IF (frame_control \div 4) % 2 = 1 THEN <<95, 17>> ELSE <<>>)
    \o <<tsn, command_id>> \o payload

CodecCall(op, cluster_id, general, command_id, args, manufacturer, sequence, data) ==
    [op |-> op, how |-> op, cluster_id |-> cluster_id, general |-> general,
     command_id |-> command_id, args |-> args, manufacturer |-> manufacturer,
     sequence |-> sequence, data |-> data, extra |-> <<>>, out |-> DeserializeFailed,
     events |-> <<>>, error |-> FALSE, raised |-> FALSE, aps |-> TRUE]

OnlyCall == UNCHANGED <<devices, appDevices, tasks, db, phase, emitted, commitLog, last, crash, steps>>

\* cluster.request(general, command_id, schema, *args, manufacturer=...)
CallRequest(cluster_id, cmd, args, manufacturer, sequence) ==
    /\ call = NoCall
    /\ \E r \in {cluster_request(cmd[1], cmd[2], cmd[3], args, manufacturer, sequence)} :
          call' = [CodecCall("request", cluster_id, cmd[1], cmd[2], args, manufacturer, sequence,
                             r.data)
                      EXCEPT !.error = r.error, !.raised = r.raised, !.aps = r.aps]
    /\ OnlyCall

\* cluster.reply(general, command_id, schema, *args, manufacturer=...)
CallReply(cluster_id, cmd, args, manufacturer, sequence) ==
    /\ call = NoCall
    /\ \E r \in {cluster_reply(cmd[1], cmd[2], cmd[3], args, manufacturer, sequence)} :
          call' = [CodecCall("reply", cluster_id, cmd[1], cmd[2], args, manufacturer, sequence,
                             r.data)
                      EXCEPT !.error = r.error, !.raised = r.raised, !.aps = r.aps]
    /\ OnlyCall

\* A frame arrives from the network
CallFrame(cluster_id, frame_control, tsn, command_id, payload) ==
    /\ call = NoCall
    /\ call' = CodecCall("frame", cluster_id, frame_control % 4 # 1, command_id, payload,
                         IF (frame_control \div 4) % 2 = 1 THEN 4447 ELSE None, tsn,
                         WireFrame(frame_control, tsn, command_id, payload))
    /\ OnlyCall

\* zcl.deserialize(cluster_id, data) of the frame, followed by extra bytes
CallDeserialize(extra) ==
    /\ call.op \in {"request", "reply", "frame"}
    /\ ~call.error
    /\ call' = [call EXCEPT !.op = "deserialize", !.extra = extra,
                            !.out = deserialize(call.cluster_id, call.data \o extra)]
    /\ OnlyCall

\* Cluster.handle_message of what deserialize returned, on the cluster of
\* endpoint 1 (the reports are the subject of HandleMessage)
CallHandleMessage ==
    /\ call.op = "deserialize"
    /\ ~call.out.failed
    /\ call.out.command_id # 10
    /\ call' = [call EXCEPT
                    !.op = "handle_message",
                    !.events = cluster_handle_message(
                                    StartState(devices[ClusterDevice]), ClusterDevice, 1,
                                    call.cluster_id # 3,
                                    Message(1, call.cluster_id, call.out.is_reply,
                                            call.out.command_id, call.out.value)).emitted]
    /\ OnlyCall

NextCodec ==
    \/ \E c \in CodecClusters, m \in ManufacturerCodes, q \in Sequences :
            \E cmd \in RequestCommands(c) : \E args \in ArgLists(cmd[3]) :
                CallRequest(c, cmd, args, m, q)
    \/ \E c \in CodecClusters, m \in ManufacturerCodes, q \in Sequences :
            \E cmd \in ReplyCommands(c) : \E args \in ArgLists(cmd[3]) :
                CallReply(c, cmd, args, m, q)
    \/ \E c \in CodecClusters, m \in ManufacturerCodes, q \in Sequences :
            \E cmd \in RequestCommands(c) : \E args \in WrongArgLists(cmd[3]) :
                CallRequest(c, cmd, args, m, q)
    \/ \E c \in CodecClusters, m \in ManufacturerCodes, q \in Sequences :
            \E cmd \in ReplyCommands(c) : \E args \in WrongArgLists(cmd[3]) :
                CallReply(c, cmd, args, m, q)
    \/ \E c \in CodecClusters, fc \in WireFrameControls, q \in Sequences, id \in WireCommands,
          payload \in WirePayloads :
            CallFrame(c, fc, q, id, payload)
    \/ \E extra \in TrailingBytes : CallDeserialize(extra)
    \/ CallHandleMessage

SpecCodec == InitCluster /\ [][NextCodec]_vars

----------------------------------------------------------------------------
(* The properties *)

\* The rows of a relation with, and without, the ieee text key
RowsOf(table, key) == SelectSeq(table, LAMBDA r : r[1] = key)
OtherRows(table, key) == SelectSeq(table, LAMBDA r : r[1] # key)

DeviceInitializedEvents == {k \in 1..Len(emitted) : emitted[k].name = "device_initialized"}

\* C1: across the Device.initialize calls of a device (those of get_device
\* included, silent or not, whatever the replies), the status of the Device
\* after each run of the coroutine is at least its status before the run,
\* in the order NEW < ENDPOINTS_DISCOVERED < INITIALIZED.
C1_StatusNeverDecreases ==
    last.op \in {"initialize", "join"} => last.status >= last.before

\* an initialize that found the device with its endpoints discovered and made
\* it INITIALIZED
C1_Witness ==
    /\ last.op = "initialize"
    /\ last.done
    /\ last.before = Status_ENDPOINTS_INITED
    /\ last.status = Status_INITIALIZED

\* C2: when the active-endpoint request of a Device.initialize failed, the
\* status after the call equals the status before it.
C2_FailedDiscoveryKeepsStatus ==
    (last.op = "initialize" /\ last.done /\ last.task.ae = "failed")
        => last.status = last.task.start_status

\* C3: every device_initialized event is emitted for a device whose status
\* is INITIALIZED at the emission.
C3_InitializedEventOnlyWhenInitialized ==
    \A k \in DeviceInitializedEvents : emitted[k].status = Status_INITIALIZED

\* C4: a run of Device.initialize(silent=True), and a run of get_device,
\* emits no device_initialized event.
C4_SilentEmitsNoInitialized ==
    (last.op \in {"initialize", "join"} /\ (last.task.silent \/ last.task.probe))
        => DeviceInitializedEvents = {}

\* a silent initialize that ended with the device INITIALIZED
C4_Witness ==
    /\ last.op = "initialize"
    /\ last.done
    /\ last.task.silent
    /\ last.before # Status_INITIALIZED
    /\ last.status = Status_INITIALIZED

\* C5: a device_joined, device_initialized, device_updated or
\* attribute_updated event for a device that is not INITIALIZED leaves the
\* four relations as they were.
C5_NoRowsUnlessInitialized ==
    \A k \in 1..Len(emitted) :
        (/\ emitted[k].name \in {"device_joined", "device_initialized", "device_updated",
                                 "attribute_updated"}
         /\ emitted[k].status # Status_INITIALIZED)
            => ~emitted[k].wrote

\* The (endpoint_id, cluster id, is_input) the clusters relation is to hold
\* for a device, and the endpoint ids the endpoints relation is to hold
GraphClusters(dev) ==
    UNION {{<<dev.endpoints[e].endpoint_id, dev.endpoints[e].in_clusters[c].cluster_id, 1>> :
                c \in 1..Len(dev.endpoints[e].in_clusters)}
           \cup {<<dev.endpoints[e].endpoint_id, dev.endpoints[e].out_clusters[c].cluster_id, 0>> :
                c \in 1..Len(dev.endpoints[e].out_clusters)} :
           e \in {x \in 1..Len(dev.endpoints) : dev.endpoints[x].endpoint_id # 0}}
GraphEndpoints(dev) ==
    {dev.endpoints[e].endpoint_id :
        e \in {x \in 1..Len(dev.endpoints) :
                /\ dev.endpoints[x].endpoint_id # 0
                /\ dev.endpoints[x].status = EpStatus_INITIALIZED}}

\* The save of the device_initialized event that ends an initialize of a
\* device without vendor hook
SavedByInitialize ==
    /\ last.op = "initialize"
    /\ last.done
    /\ ~last.task.silent
    /\ last.status = Status_INITIALIZED
    /\ devices[last.ieee].manufacturer \notin SPECIALIZED_LISTENERS

\* C6: after the save of an INITIALIZED device, the clusters rows of its ieee
\* are one row for every cluster of every non-zero endpoint, the endpoints
\* rows one row per INITIALIZED non-zero endpoint, and the rows of other
\* devices are as before.
C6_SaveWritesEveryCluster ==
    [][SavedByInitialize' =>
        LET key == adapt_ieee(last'.ieee)
            crows == RowsOf(db'.clusters, key)
            erows == RowsOf(db'.endpoints, key)
        IN  /\ {<<crows[k][2], crows[k][3], crows[k][4]>> : k \in 1..Len(crows)}
                    = GraphClusters(devices'[last'.ieee])
            /\ Len(crows) = Cardinality(GraphClusters(devices'[last'.ieee]))
            /\ {erows[k][2] : k \in 1..Len(erows)} = GraphEndpoints(devices'[last'.ieee])
            /\ Len(erows) = Cardinality(GraphEndpoints(devices'[last'.ieee]))
            /\ OtherRows(db'.devices, key) = OtherRows(db.devices, key)
            /\ OtherRows(db'.endpoints, key) = OtherRows(db.endpoints, key)
            /\ OtherRows(db'.clusters, key) = OtherRows(db.clusters, key)
            /\ OtherRows(db'.cluster_attributes, key) = OtherRows(db.cluster_attributes, key)]_vars

\* C7: after a load, every devices row has its Device, INITIALIZED with the
\* stored nwk and manufacturer; every endpoints row its Endpoint, INITIALIZED
\* with the stored profile id and device type; every clusters row its Cluster
\* in the map of its is_input flag; every cluster_attributes row its entry in
\* the cache of the input cluster; no request is pending and no event was
\* emitted.
C7_LoadReconstructsGraph ==
    last.op = "load" =>
        /\ phase = "running"
        /\ \A k \in 1..Len(db.devices) :
            LET r == db.devices[k]
                i == convert_ieee(r[1])
            IN  /\ i \in DOMAIN devices
                /\ devices[i].status = Status_INITIALIZED
                /\ devices[i].nwk = r[2]
                /\ devices[i].manufacturer = r[3]
        /\ \A k \in 1..Len(db.endpoints) :
            LET r == db.endpoints[k]
                i == convert_ieee(r[1])
            IN  /\ i \in DOMAIN devices
                /\ HasEndpoint(devices[i], r[2])
                /\ GetEndpoint(devices[i], r[2]).status = EpStatus_INITIALIZED
                /\ GetEndpoint(devices[i], r[2]).profile_id = r[3]
                /\ GetEndpoint(devices[i], r[2]).device_type.raw = r[4]
        /\ \A k \in 1..Len(db.clusters) :
            LET r == db.clusters[k]
                i == convert_ieee(r[1])
            IN  /\ i \in DOMAIN devices
                /\ HasEndpoint(devices[i], r[2])
                /\ HasCluster(IF r[4] # 0 THEN GetEndpoint(devices[i], r[2]).in_clusters
                              ELSE GetEndpoint(devices[i], r[2]).out_clusters, r[3])
        /\ \A k \in 1..Len(db.cluster_attributes) :
            LET r == db.cluster_attributes[k]
                i == convert_ieee(r[1])
            IN  /\ i \in DOMAIN devices
                /\ HasEndpoint(devices[i], r[2])
                /\ HasCluster(GetEndpoint(devices[i], r[2]).in_clusters, r[3])
                /\ LET clusters == GetEndpoint(devices[i], r[2]).in_clusters
                       cache == clusters[ClusterIndex(clusters, r[3])].cache
                   IN  r[4] \in DOMAIN cache /\ cache[r[4]] = r[5]
        /\ emitted = <<>>
        /\ \A i \in Ieees : tasks[i].pc = "idle"

\* C8: after device_removed for a device, no relation holds a row with its
\* ieee, and loading the file creates no Device for it.
C8_RemoveDeletesEveryRow ==
    last.op = "remove" =>
        /\ RowsOf(db.devices, adapt_ieee(last.ieee)) = <<>>
        /\ RowsOf(db.endpoints, adapt_ieee(last.ieee)) = <<>>
        /\ RowsOf(db.clusters, adapt_ieee(last.ieee)) = <<>>
        /\ RowsOf(db.cluster_attributes, adapt_ieee(last.ieee)) = <<>>
        /\ last.ieee \notin DOMAIN load(db).devs

\* the removal of a device that had rows, another device keeping its own
C8_Witness ==
    /\ last.op = "remove"
    /\ Len(emitted) = 1
    /\ emitted[1].name = "device_removed"
    /\ emitted[1].wrote

\* What a load reads of one device: its rows of devices, endpoints, clusters
DeviceView(file, key) ==
    <<RowsOf(file.devices, key), RowsOf(file.endpoints, key), RowsOf(file.clusters, key)>>

\* C9: when the process stops inside the save of one lifecycle event, the
\* file holds for that device either its rows of before the save or its rows
\* of after the save.
C9_SaveIsAtomic ==
    (crash.in /\ crash.name \in {"device_joined", "device_initialized", "device_updated"})
        => DeviceView(db, adapt_ieee(crash.ieee))
                \in {DeviceView(crash.pre, adapt_ieee(crash.ieee)),
                     DeviceView(crash.post, adapt_ieee(crash.ieee))}

\* A handled non-reply attribute report, and what it is to leave: the
\* attribute_updated events are those of its pairs, in their order, and the
\* cache of its cluster maps each reported id to the value of its last pair
ReportHandled ==
    /\ last.op = "handle_message"
    /\ last.done
    /\ ~last.raised
    /\ ~last.task.msg.is_reply
    /\ last.task.msg.command_id = 10
AttributeUpdatedEvents == SelectSeq(emitted, LAMBDA e : e.name = "attribute_updated")
LastValue(attrs, attrid) ==
    attrs[CHOOSE j \in 1..Len(attrs) :
            /\ attrs[j][1] = attrid
            /\ \A j2 \in (j + 1)..Len(attrs) : attrs[j2][1] # attrid][2]
ReportedCluster ==
    LET ep == GetEndpoint(devices[last.ieee], last.task.msg.endpoint)
    IN  IF HasCluster(ep.in_clusters, last.task.msg.cluster)
        THEN ep.in_clusters[ClusterIndex(ep.in_clusters, last.task.msg.cluster)]
        ELSE ep.out_clusters[ClusterIndex(ep.out_clusters, last.task.msg.cluster)]
ReportEffect ==
    LET attrs == last.task.msg.args
    IN  /\ Len(AttributeUpdatedEvents) = Len(attrs)
        /\ \A k \in 1..Len(attrs) :
            /\ AttributeUpdatedEvents[k].endpoint_id = last.task.msg.endpoint
            /\ AttributeUpdatedEvents[k].cluster_id = last.task.msg.cluster
            /\ AttributeUpdatedEvents[k].attrid = attrs[k][1]
            /\ AttributeUpdatedEvents[k].value = attrs[k][2]
        /\ \A k \in 1..Len(attrs) :
            /\ attrs[k][1] \in DOMAIN ReportedCluster.cache
            /\ ReportedCluster.cache[attrs[k][1]] = LastValue(attrs, attrs[k][1])

----------------------------------------------------------------------------
(* The properties of the clusters' operations *)

\* The runs that may write an attribute cache
ClusterOps == {"read_attributes", "read_attributes_reply", "update_attribute_local", "handle_message"}

\* The entries of the attribute caches of a device
CacheEntries(dev) ==
    UNION {UNION {{<<dev.endpoints[e].endpoint_id, TRUE, dev.endpoints[e].in_clusters[c].cluster_id,
                     a, dev.endpoints[e].in_clusters[c].cache[a]>> :
                        a \in DOMAIN dev.endpoints[e].in_clusters[c].cache} :
                    c \in 1..Len(dev.endpoints[e].in_clusters)}
           \cup UNION {{<<dev.endpoints[e].endpoint_id, FALSE, dev.endpoints[e].out_clusters[c].cluster_id,
                          a, dev.endpoints[e].out_clusters[c].cache[a]>> :
                            a \in DOMAIN dev.endpoints[e].out_clusters[c].cache} :
                        c \in 1..Len(dev.endpoints[e].out_clusters)} :
           e \in 1..Len(dev.endpoints)}

WriteEntry(w) == <<w.endpoint_id, w.is_input, w.cluster_id, w.attrid, w.value>>

RECURSIVE SuccessfulRecords(_, _)
\* The records of status 0 of a response, up to a record for an id that was
\* not asked for
SuccessfulRecords(records, orig) ==
    IF records = <<>> \/ Head(records).attrid \notin DOMAIN orig THEN <<>>
    ELSE IF Head(records).status = 0
    THEN <<Head(records)>> \o SuccessfulRecords(Tail(records), orig)
    ELSE SuccessfulRecords(Tail(records), orig)

\* C11: in a run that reads, reports or locally updates attributes, the
\* attribute_updated events are, one for one and in order, the writes to the
\* attribute caches, each with the cluster, attribute id and value of its
\* write and emitted when the cache holds that value; every cache entry the
\* run changed is one of its writes; the writes of a read are exactly its
\* records of status 0, so that a failed read, a default response and a record
\* of another status write nothing and emit nothing.
C11_CacheWriteEmitsOneEvent ==
    [][last'.op \in ClusterOps =>
        LET events == SelectSeq(emitted', LAMBDA e : e.name = "attribute_updated")
            writes == last'.writes
            rd == last'.task.read
            ok == SuccessfulRecords(rd.result.records, rd.orig)
        IN  /\ Len(events) = Len(writes)
            /\ \A k \in 1..Len(writes) :
                    /\ events[k].endpoint_id = writes[k].endpoint_id
                    /\ events[k].cluster_id = writes[k].cluster_id
                    /\ events[k].is_input = writes[k].is_input
                    /\ events[k].attrid = writes[k].attrid
                    /\ events[k].value = writes[k].value
                    /\ events[k].cached = writes[k].value
            /\ CacheEntries(devices'[last'.ieee]) \ CacheEntries(devices[last'.ieee])
                    \subseteq {WriteEntry(writes[k]) : k \in 1..Len(writes)}
            /\ last'.op = "read_attributes" => writes = <<>>
            /\ last'.op = "read_attributes_reply" =>
                    /\ Len(writes) = Len(ok)
                    /\ \A k \in 1..Len(ok) :
                            /\ writes[k].attrid = ok[k].attrid
                            /\ writes[k].value = ok[k].value
                            /\ writes[k].endpoint_id = rd.endpoint_id
                            /\ writes[k].cluster_id = rd.cluster_id
                            /\ writes[k].is_input = rd.is_input]_vars

\* a response whose first record has status 0 and whose second has not: one
\* write, one event
C11_Witness ==
    /\ last.op = "read_attributes_reply"
    /\ Len(last.task.read.result.records) = 2
    /\ last.task.read.result.records[1].status = 0
    /\ last.task.read.result.records[2].status # 0
    /\ Len(last.writes) = 1
    /\ Len(SelectSeq(emitted, LAMBDA e : e.name = "attribute_updated")) = 1

\* The cluster the last read_attributes was called on, and the ids its
\* references stand for
ReadCluster ==
    GetCluster(devices[last.ieee], last.task.read.endpoint_id, last.task.read.is_input,
               last.task.read.cluster_id)
ReadIds == {Resolve(ReadCluster, last.task.read.refs[k]) : k \in 1..Len(last.task.read.refs)}

\* C12: read_attributes with allow_cache and every id cached sends no frame
\* and returns the cached value under every reference, with no failure; with
\* allow_cache and some id not cached it sends one read request (general
\* command 0x00) whose ids are exactly the ids not cached; without
\* allow_cache it sends one read request with every id, cached or not; the
\* rest of the call sends nothing more.
C12_ReadRequestsOnlyUncached ==
    /\ (last.op = "read_attributes" /\ ~last.raised) =>
        LET rd == last.task.read
            cache == ReadCluster.cache
            uncached == ReadIds \ DOMAIN cache
        IN  /\ (rd.allow_cache /\ uncached = {}) =>
                    /\ last.sent = <<>>
                    /\ last.done
                    /\ DOMAIN rd.success = {rd.refs[k] : k \in 1..Len(rd.refs)}
                    /\ \A k \in 1..Len(rd.refs) :
                            rd.success[rd.refs[k]] = cache[Resolve(ReadCluster, rd.refs[k])]
                    /\ DOMAIN rd.failure = {}
            /\ (rd.allow_cache /\ uncached # {}) =>
                    /\ Len(last.sent) = 1
                    /\ last.sent[1].how = "request"
                    /\ last.sent[1].general
                    /\ last.sent[1].command_id = 0
                    /\ {last.sent[1].args[k] : k \in 1..Len(last.sent[1].args)} = uncached
                    /\ ~last.done
            /\ (~rd.allow_cache /\ rd.refs # <<>>) =>
                    /\ Len(last.sent) = 1
                    /\ last.sent[1].how = "request"
                    /\ last.sent[1].general
                    /\ last.sent[1].command_id = 0
                    /\ last.sent[1].args = [k \in 1..Len(rd.refs) |-> Resolve(ReadCluster, rd.refs[k])]
                    /\ ~last.done
    /\ last.op = "read_attributes_reply" => last.sent = <<>>

\* a read with allow_cache of a cached and an uncached attribute: the request
\* names the uncached one only
C12_Witness ==
    /\ last.op = "read_attributes"
    /\ last.task.read.allow_cache
    /\ last.task.read.refs = <<ById(0), ById(16385)>>
    /\ Len(last.sent) = 1
    /\ last.sent[1].args = <<16385>>
    /\ DOMAIN last.task.read.success = {ById(0)}

\* C13: after a read_attributes whose response has a record for every id of
\* the request, the keys of success and the keys of failure are disjoint and
\* together are exactly the references the caller passed, a name and an id
\* of one attribute being two references.
C13_ReadPartitionsReferences ==
    (/\ last.op = "read_attributes_reply"
     /\ ~last.raised
     /\ last.task.read.result.kind = "records"
     /\ [k \in 1..Len(last.task.read.result.records) |-> last.task.read.result.records[k].attrid]
            = last.task.read.to_read)
        => /\ DOMAIN last.task.read.success \cap DOMAIN last.task.read.failure = {}
           /\ DOMAIN last.task.read.success \cup DOMAIN last.task.read.failure
                = {last.task.read.refs[k] : k \in 1..Len(last.task.read.refs)}

\* The cluster the last write_attributes was called on, and the attributes
\* of its batch that are in the cluster's definition with a value of their
\* declared type, in the order of the batch
WriteCluster ==
    GetCluster(devices[last.ieee], last.task.write.endpoint_id, last.task.write.is_input,
               last.task.write.cluster_id)
Writable(pair) ==
    LET defined == IF WriteCluster.class = "registered"
                   THEN RegistryAttributes(WriteCluster.cluster_id) ELSE <<>>
        attrid == IF pair[1].str
                  THEN CHOOSE a \in DOMAIN defined : defined[a].name = AttrNames[pair[1].val]
                  ELSE pair[1].val
    IN  attrid \in DOMAIN defined /\ InRange(defined[attrid].type, pair[2])

\* C14: write_attributes sends exactly one frame and does not raise, whatever
\* values of the batch cannot be coerced and whatever ids are not in the
\* cluster's definition; the frame lists exactly the defined attributes with
\* a coercible value, in the order of the batch.
C14_WriteSkipsFailingAttributes ==
    last.op = "write_attributes" =>
        LET kept == SelectSeq(last.task.write.batch, Writable)
        IN  /\ ~last.raised
            /\ Len(last.sent) = 1
            /\ Len(last.sent[1].args) = Len(kept)
            /\ \A k \in 1..Len(kept) :
                    /\ last.sent[1].args[k].value = kept[k][2]
                    /\ ByName(RegistryAttributes(WriteCluster.cluster_id)[last.sent[1].args[k].attrid].name)
                            = ByName(RegistryAttributes(WriteCluster.cluster_id)[
                                        IF kept[k][1].str
                                        THEN last.sent[1].args[k].attrid ELSE kept[k][1].val].name)
                    /\ ~kept[k][1].str => last.sent[1].args[k].attrid = kept[k][1].val

\* The clusters of the direction asked for that the endpoint held before
\* add_cluster
HeldBefore == IF call.is_input THEN call.before.in_clusters ELSE call.before.out_clusters

\* The cluster add_cluster returned is of the class registered for the id, of
\* the class of the range that holds the id, or a Cluster, and has the id
\* and the direction asked for
ReturnedAsAsked ==
    /\ call.result.cluster_id = call.cluster_id
    /\ call.result.is_input = call.is_input
    /\ call.result.class =
            (IF call.cluster_id \in {0, 3, 6} THEN "registered"
             ELSE IF call.cluster_id >= 64512 /\ call.cluster_id <= 65535 THEN "range"
             ELSE "Cluster")

\* C18: add_cluster returns, for every cluster id, a cluster of the
\* registered class, of the range's class or a fallback Cluster, with the id
\* asked for; its attribute cache is empty when the endpoint did not hold
\* the cluster, and otherwise add_cluster returns the cluster the endpoint
\* holds, with the cache it has.
C18_AddClusterReturnsNewOrHeld ==
    call.op = "add_cluster" =>
        /\ ReturnedAsAsked
        /\ IF HasCluster(HeldBefore, call.cluster_id)
           THEN call.result = HeldBefore[ClusterIndex(HeldBefore, call.cluster_id)]
           ELSE call.result.cache = <<>>

\* C18 as stated: the attribute cache of the returned cluster is empty
C18_AddClusterReturnsEmptyCache ==
    call.op = "add_cluster" => ReturnedAsAsked /\ call.result.cache = <<>>

\* add_cluster made a cluster for an id of the manufacturer specific range
C18_Witness ==
    /\ call.op = "add_cluster"
    /\ call.cluster_id = 65535
    /\ ~HasCluster(HeldBefore, call.cluster_id)
    /\ call.result.class = "range"
    /\ call.result.cache = <<>>
    /\ HasCluster(GetEndpoint(devices[ClusterDevice], 1).out_clusters, 65535)

----------------------------------------------------------------------------
(* The properties of the retried requests *)

\* The last attempt of the request device i awaits times out in this step
LastAttemptFails(i, pc) ==
    /\ i \in DOMAIN devices
    /\ tasks[i].pc = pc
    /\ tasks[i].tries + 1 = Tries
    /\ last'.op = "request_failed"
    /\ last'.ieee = i

\* C19: a request with 3 tries is sent at most 3 times, is not sent again
\* once it is answered, and after 3 timeouts fails in its caller, which does
\* not raise out of initialize and leaves the status as it is: the status of
\* the Device for Active_EP_req and Node_Desc_req, INITIALIZING for the
\* Endpoint of a Simple_Desc_req.
C19_RetriesThenStalls ==
    [][\A i \in Ieees :
        /\ tasks'[i].tries < Tries
        /\ tasks'[i].tries > 0 => tasks'[i].pc = tasks[i].pc /\ tasks'[i].tries = tasks[i].tries + 1
        /\ (last'.op \in {"initialize", "handle_message"} /\ last'.ieee = i) => tasks'[i].tries = 0
        /\ LastAttemptFails(i, "Active_EP_req") \/ LastAttemptFails(i, "Node_Desc_req") =>
                /\ ~last'.raised
                /\ i \in DOMAIN devices' => devices'[i].status = devices[i].status
        /\ LastAttemptFails(i, "Simple_Desc_req") =>
                /\ ~last'.raised
                /\ i \in DOMAIN devices' =>
                        GetEndpoint(devices'[i], tasks[i].cur).status = EpStatus_INITIALIZING
      ]_vars

----------------------------------------------------------------------------
(* The properties of the routing of messages *)

\* The events of a name among those of the last run
EventsNamed(name) == SelectSeq(emitted, LAMBDA e : e.name = name)

\* The last run ended a Device.handle_message
MessageRouted == last.op \in {"handle_message", "request_failed"} /\ last.done /\ last.task.kind = "msg"

\* C20: Device.handle_message of a message for an endpoint the device does
\* not have ends without an exception, having announced device_updated once
\* before anything the endpoint announces for the message; for an endpoint
\* the device has it announces no device_updated.  (The endpoint announces
\* device_updated itself after each unknown_cluster_message.)
C20_UnknownEndpointThenForward ==
    MessageRouted =>
        /\ ~last.raised
        /\ HasEndpoint(devices[last.ieee], last.task.msg.endpoint)
        /\ IF last.task.cur # None
           THEN /\ emitted # <<>>
                /\ emitted[1].name = "device_updated"
                /\ Len(EventsNamed("device_updated")) = 1 + Len(EventsNamed("unknown_cluster_message"))
           ELSE Len(EventsNamed("device_updated")) = Len(EventsNamed("unknown_cluster_message"))

\* Device.handle_message gave the message of this step to an endpoint the
\* device had: device i, the message
Forwarded(i) ==
    /\ last'.op = "handle_message"
    /\ last'.ieee = i
    /\ last'.done
    /\ ~last'.raised
    /\ last'.task.cur = None
    /\ i \in DOMAIN devices
    /\ i \in DOMAIN devices'

\* The positions in a sequence of events of those a cluster handler announces
\* first: zdo_command and cluster_command
HandlerEvents(events) ==
    {k \in 1..Len(events) : events[k].name \in {"zdo_command", "cluster_command"}}

\* Every cluster of the first map is in the second at the same place, with
\* its class and with every entry of its cache
ClustersKept(before, after) ==
    /\ Len(before) <= Len(after)
    /\ \A k \in 1..Len(before) :
            /\ after[k].cluster_id = before[k].cluster_id
            /\ after[k].class = before[k].class
            /\ after[k].is_input = before[k].is_input
            /\ DOMAIN before[k].cache \subseteq DOMAIN after[k].cache

----------------------------------------------------------------------------
(* The properties of the frame codec *)

\* The entry of the registry for the command a frame was built for
BuiltCommand ==
    IF call.general THEN FoundationCommands[call.command_id]
    ELSE IF call.how = "request" THEN RegistryServerCommands(call.cluster_id)[call.command_id]
    ELSE RegistryClientCommands(call.cluster_id)[call.command_id]

\* A frame built by request or reply was decoded as it was built
BuiltDecoded == call.op = "deserialize" /\ call.how \in {"request", "reply"} /\ call.extra = <<>>

\* What deserialize returns for every frame built by request or reply
RoundTrip ==
    /\ ~call.out.failed
    /\ call.out.decoded
    /\ call.out.tsn = call.sequence
    /\ call.out.command_id = call.command_id + (IF call.general THEN 0 ELSE 256)
    /\ call.out.value = call.args

TrailingDecoded ==
    call.op = "deserialize" /\ call.how \in {"request", "reply"} /\ call.extra # <<>>

C22_SchemaMismatchIsAnError ==
    (call.op \in {"request", "reply"} /\ Len(call.args) # Len(BuiltCommand.schema)) =>
        /\ call.data = <<>>
        /\ ~call.aps
        /\ emitted = <<>>
        /\ call.raised

\* The frame of the call as it is on the wire: its direction bit, whether its
\* frame type is that of a command of the cluster, the bytes after its
\* command id, and whether the registry has no entry for its command
WireDirection == (call.data[1] \div 8) % 2
WireClusterSpecific == call.data[1] % 4 = 1
WirePayload ==
    Drop(call.data, IF (call.data[1] \div 4) % 2 = 1 THEN 5 ELSE 3) \o call.extra
WireUnknown ==
    IF WireClusterSpecific
    THEN \/ call.cluster_id \notin RegisteredClusters
         \/ call.command_id \notin DOMAIN (IF WireDirection = 1
                                           THEN RegistryClientCommands(call.cluster_id)
                                           ELSE RegistryServerCommands(call.cluster_id))
    ELSE call.command_id \notin DOMAIN FoundationCommands

\* C17: deserialize does not fail on a frame of an unknown cluster or an
\* unknown command and returns its payload undecoded; the command id it
\* returns is the id on the wire plus 256 when the frame type is that of a
\* command of the cluster, known or not, and the id on the wire otherwise;
\* Cluster.handle_message announces the former as cluster_command and the
\* latter as zdo_command, both with the id on the wire.
C17_UnknownDecodesWithOffset ==
    /\ call.op \in {"deserialize", "handle_message"} =>
            /\ ~call.out.failed
            /\ call.out.tsn = call.sequence
            /\ call.out.command_id = call.command_id + (IF WireClusterSpecific THEN 256 ELSE 0)
            /\ (call.out.command_id > 255) = WireClusterSpecific
            /\ WireUnknown => ~call.out.decoded /\ call.out.value = WirePayload
                              /\ call.out.is_reply = (WireDirection = 1)
    /\ call.op = "handle_message" /\ ~call.out.is_reply =>
            /\ Len(call.events) = 1
            /\ call.events[1].name = (IF WireClusterSpecific THEN "cluster_command" ELSE "zdo_command")
            /\ call.events[1].command_id = call.command_id

\* A frame of an unknown command of a known cluster, with a manufacturer
\* code, was decoded and handled
C17_Witness ==
    /\ call.op = "handle_message"
    /\ call.how = "frame"
    /\ call.cluster_id \in RegisteredClusters
    /\ WireClusterSpecific
    /\ WireUnknown
    /\ call.manufacturer # None
    /\ call.out.command_id = call.command_id + 256
    /\ Len(call.events) = 1

----------------------------------------------------------------------------
(* The properties of the discovery of endpoints *)

\* The step hands a Simple_Desc reply, or whatever stands for it, to the
\* Endpoint.initialize the coroutine of device i is suspended in
DescriptorStep(i) ==
    /\ i \in DOMAIN devices
    /\ tasks[i].pc = "Simple_Desc_req"
    /\ last'.op \in {"initialize", "handle_message"}
    /\ last'.ieee = i
    /\ steps' = steps + 1

\* The endpoints rows of the file up to the k-th name loaded devices and no
\* endpoint twice
RowsReadable(k) ==
    \A j \in 1..k :
        /\ convert_ieee(db.endpoints[j][1]) \in DOMAIN devices
        /\ \A h \in 1..(j - 1) :
            <<db.endpoints[h][1], db.endpoints[h][2]>> # <<db.endpoints[j][1], db.endpoints[j][2]>>

\* C23: neither the discovery of an endpoint nor load fails on the pair of a
\* profile id and a device type: a descriptor a device answers with leaves
\* its endpoint INITIALIZED with the device type, resolved or raw, and every
\* endpoints row of the file is loaded as an INITIALIZED endpoint holding the
\* device type of the row.
C23_DeviceTypeNeverFails ==
    [][/\ \A i \in Ieees :
            DescriptorStep(i) =>
                /\ ~last'.raised
                /\ i \in DOMAIN devices'
                /\ GetEndpoint(devices'[i], tasks[i].cur).profile_id # Unset =>
                        /\ GetEndpoint(devices'[i], tasks[i].cur).status = EpStatus_INITIALIZED
                        /\ GetEndpoint(devices'[i], tasks[i].cur).device_type.raw # Unset
       /\ last'.op = "load" =>
            \A k \in 1..Len(db.endpoints) :
                RowsReadable(k)' =>
                    LET r == db.endpoints[k]
                        i == convert_ieee(r[1])
                    IN  /\ HasEndpoint(devices'[i], r[2])
                        /\ GetEndpoint(devices'[i], r[2]).status = EpStatus_INITIALIZED
                        /\ GetEndpoint(devices'[i], r[2]).device_type.raw = r[4]
      ]_vars

\* C26: a Device.initialize of a NEW device whose Active_EP_req succeeded
\* ends without an exception, with every endpoint of the reply attempted and
\* the device at ENDPOINTS_INITED or beyond, whatever each Simple_Desc_req
\* came to.
C26_EndpointFailuresTolerated ==
    (/\ last.task.kind = "init"
     /\ last.done
     /\ last.task.start_status = Status_NEW
     /\ last.task.ae = "ok") =>
        /\ ~last.raised
        /\ last.status \in {Status_ENDPOINTS_INITED, Status_INITIALIZED}
        /\ last.ieee \in DOMAIN devices
        /\ \A k \in 1..Len(devices[last.ieee].endpoints) :
              \/ devices[last.ieee].endpoints[k].zdo
              \/ devices[last.ieee].endpoints[k].status # EpStatus_NEW

\* The ids of a sequence of clusters, and of a sequence of ids
ClusterIds(clusters) == {clusters[k].cluster_id : k \in 1..Len(clusters)}
Listed(ids) == {ids[k] : k \in 1..Len(ids)}

\* C27: Endpoint.initialize has set INITIALIZING when its request is sent;
\* it ends INITIALIZED exactly when the request is answered with status 0,
\* with every input and output cluster of the descriptor in its map; when the
\* request fails the endpoint stays INITIALIZING and initialize leaves it
\* as it was.
C27_InitializedIffDescribed ==
    [][\A i \in DOMAIN devices :
          /\ (i \in DOMAIN devices' /\ tasks'[i].pc = "Simple_Desc_req") =>
                GetEndpoint(devices'[i], tasks'[i].cur).status = EpStatus_INITIALIZING
          /\ \A reply \in SimpleDescReplies :
                (SimpleDescReplyInit(i, reply) \/ SimpleDescReplyMessage(i, reply)) =>
                    /\ i \in DOMAIN devices'
                    /\ LET before == GetEndpoint(devices[i], tasks[i].cur)
                           after == GetEndpoint(devices'[i], tasks[i].cur)
                       IN  /\ (after.status = EpStatus_INITIALIZED) = reply.ok
                           /\ reply.ok =>
                                /\ Listed(reply.sd.input_clusters) \subseteq ClusterIds(after.in_clusters)
                                /\ Listed(reply.sd.output_clusters) \subseteq ClusterIds(after.out_clusters)
                           /\ ~reply.ok =>
                                /\ after.status = EpStatus_INITIALIZING
                                /\ GetEndpoint(endpoint_initialize_reply(devices[i], tasks[i].cur, reply).dev,
                                               tasks[i].cur) = before
          /\ (RequestFails(i) /\ tasks[i].pc = "Simple_Desc_req") =>
                /\ i \in DOMAIN devices'
                /\ GetEndpoint(devices'[i], tasks[i].cur).status = EpStatus_INITIALIZING
      ]_vars

\* C29: key 0 of the endpoints of every device is bound to its ZDO object,
\* which no add_endpoint(0), no reply listing endpoint 0 and no message for
\* endpoint 0 replaces; no Simple_Desc_req is sent for endpoint 0; no row of
\* endpoints or clusters has endpoint_id 0.
C29_EndpointZeroIsZdo ==
    /\ \A i \in DOMAIN devices :
          /\ HasEndpoint(devices[i], 0)
          /\ GetEndpoint(devices[i], 0) = ZdoObject
          /\ Cardinality({k \in 1..Len(devices[i].endpoints) :
                            devices[i].endpoints[k].endpoint_id = 0}) = 1
          /\ tasks[i].pc = "Simple_Desc_req" => tasks[i].cur # 0
    /\ \A k \in 1..Len(db.endpoints) : db.endpoints[k][2] # 0
    /\ \A k \in 1..Len(db.clusters) : db.clusters[k][2] # 0

\* A message for endpoint 0 was handled by a device whose endpoints are saved
C29_Witness ==
    /\ last.op = "handle_message"
    /\ last.done
    /\ last.task.msg.endpoint = 0
    /\ db.endpoints # <<>>
    /\ Len(devices[last.ieee].endpoints) > 1

----------------------------------------------------------------------------
(* The properties of overlapping and cancelled coroutines *)

\* The requests of a kind the two coroutines of device i await
InFlight(i, pc) ==
    (IF tasks[i].pc = pc THEN {<<"first", tasks[i].cur>>} ELSE {})
        \cup (IF call.op = "coroutine" /\ call.task.pc = pc THEN {<<"second", call.task.cur>>} ELSE {})

\* C24: two overlapping runs of initialize or handle_message for one device
\* never have the same discovery request in flight twice: not two
\* Simple_Desc_req for one endpoint, not two Active_EP_req for the device.
C24_NoDiscoveryStepTwice ==
    \A i \in DOMAIN devices :
        /\ \A a, b \in InFlight(i, "Simple_Desc_req") : a[2] = b[2] => a = b
        /\ Cardinality(InFlight(i, "Active_EP_req")) <= 1

\* C25: when the request a coroutine awaits is cancelled, the coroutine
\* issues no further request and the status of the device and the status of
\* each of its endpoints stay as they were.
C25_CancelledStopsDiscovery ==
    [][\A i \in DOMAIN devices :
          (last'.op = "cancelled" /\ last'.ieee = i /\ steps' = steps + 1) =>
              /\ tasks'[i].pc = "idle"
              /\ i \in DOMAIN devices' =>
                    /\ devices'[i].status = devices[i].status
                    /\ \A k \in 1..Len(devices[i].endpoints) :
                          /\ k <= Len(devices'[i].endpoints)
                          /\ devices'[i].endpoints[k].status = devices[i].endpoints[k].status
      ]_vars

----------------------------------------------------------------------------
(* The properties of the attribute caches *)

\* The clusters of both maps of every endpoint of every device
AllClusters ==
    UNION {UNION {{ep.in_clusters[k] : k \in 1..Len(ep.in_clusters)}
                    \cup {ep.out_clusters[k] : k \in 1..Len(ep.out_clusters)} :
                  ep \in {devices[i].endpoints[e] : e \in 1..Len(devices[i].endpoints)}} :
           i \in DOMAIN devices}

\* C28: the cache of a cluster built from a definition of the registry holds
\* only ids of attributes of that definition, whatever reports, read
\* responses, local updates and loaded rows wrote into it.
C28_CacheWithinDefinition ==
    \A c \in AllClusters :
        c.cluster_id \in RegisteredClusters =>
            DOMAIN c.cache \subseteq DOMAIN RegistryAttributes(c.cluster_id)

\* The caches of a sequence of clusters, by cluster id
Caches(clusters) == {<<clusters[k].cluster_id, clusters[k].cache>> : k \in 1..Len(clusters)}

\* C30: Cluster.handle_message of a message with is_reply set announces no
\* zdo_command, cluster_command or attribute_updated and writes no cache, an
\* attribute report included: the caches the endpoint had are as they were,
\* a cluster made for the message has an empty one, and no attribute row is
\* written.
C30_RepliesAreDropped ==
    [][\A i \in DOMAIN devices :
          (Forwarded(i) /\ last'.task.msg.is_reply) =>
              LET before == GetEndpoint(devices[i], last'.task.msg.endpoint)
                  after == GetEndpoint(devices'[i], last'.task.msg.endpoint)
              IN  /\ \A k \in 1..Len(emitted') :
                        emitted'[k].name \notin {"zdo_command", "cluster_command", "attribute_updated"}
                  /\ Caches(before.in_clusters) \subseteq Caches(after.in_clusters)
                  /\ Caches(after.out_clusters) = Caches(before.out_clusters)
                  /\ \A c \in Caches(after.in_clusters) \ Caches(before.in_clusters) : c[2] = <<>>
                  /\ db'.cluster_attributes = db.cluster_attributes
      ]_vars

\* An attribute report with is_reply set reached a cluster the endpoint held
C30_Witness ==
    /\ last.op = "handle_message"
    /\ last.done
    /\ last.task.msg.is_reply
    /\ last.task.msg.command_id = 10
    /\ last.task.msg.args # <<>>
    /\ emitted = <<>>

----------------------------------------------------------------------------
(* The properties of the vendor hooks *)

\* The bind requests among the frames of a run for the Basic cluster of an
\* endpoint
BindRequests(sent, endpoint_id) ==
    {k \in 1..Len(sent) : /\ sent[k].how = "bind"
                          /\ sent[k].endpoint_id = endpoint_id
                          /\ sent[k].cluster_id = ZCL_CLUSTER_ID_basic}

\* The Basic cluster of the endpoint holds a model of a sensor_magnet: an
\* attribute_updated event for it was announced, and handled, before
ModelKnown(dev, endpoint_id) ==
    /\ HasEndpoint(dev, endpoint_id)
    /\ HasCluster(GetEndpoint(dev, endpoint_id).in_clusters, ZCL_CLUSTER_ID_basic)
    /\ LET c == GetCluster(dev, endpoint_id, TRUE, ZCL_CLUSTER_ID_basic)
       IN  AttrId_model \in DOMAIN c.cache /\ c.cache[AttrId_model] = Model_sensor_magnet

\* C31: for the Basic cluster of a Xiaomi device the bind is requested at
\* most once over all attribute_updated events for a model that starts with
\* "sensor_magnet": a run requests it at most once, and never for a cluster
\* an earlier event has requested it for.
C31_BindsAtMostOnce ==
    [][\A i \in DOMAIN devices :
          (steps' = steps + 1 /\ last'.ieee = i /\ devices[i].manufacturer = VENDOR_XIAOMI) =>
              /\ Cardinality(BindRequests(last'.sent, 1)) <= 1
              /\ ModelKnown(devices[i], 1) => BindRequests(last'.sent, 1) = {}
      ]_vars

\* The events the listeners are called with for a device: every name the
\* application announces, and for attribute_updated the attributes the
\* vendor hooks look at, on the endpoints the device has
HookNames == {"device_joined", "device_initialized", "device_updated", "device_removed",
              "attribute_updated", "cluster_command"}
HookEvents(i) ==
    {[Event(name, i) EXCEPT !.endpoint_id = e, !.cluster_id = u[1], !.is_input = TRUE,
                            !.attrid = u[2], !.value = u[3]] :
        name \in HookNames,
        e \in {devices[i].endpoints[k].endpoint_id : k \in 1..Len(devices[i].endpoints)},
        u \in {<<ZCL_CLUSTER_ID_basic, AttrId_model, Model_sensor_magnet>>,
               <<ZCL_CLUSTER_ID_on_off, XiaomiHeartbeat, 256 * XiaomiType_on_off + 1>>,
               <<ZCL_CLUSTER_ID_on_off, 0, 1>>}}

\* C32: the specialization listener runs a vendor hook only for a device
\* whose manufacturer code is a key of SPECIALIZED_LISTENERS and only for a
\* hook the vendor defines.  For a device whose manufacturer is unknown or no
\* key of the table every event leaves the state as it is and sends nothing,
\* and so does an event no vendor has a hook for; a handled report of such a
\* device sent no bind and wrote its own pairs only.
C32_HooksOnlyForListedVendors ==
    /\ \A i \in DOMAIN devices : \A ev \in HookEvents(i) :
          (\/ devices[i].manufacturer = None
           \/ devices[i].manufacturer \notin SPECIALIZED_LISTENERS
           \/ ev.name \notin {"device_initialized", "attribute_updated"})
          => SpecializationListener(StartState(devices[i]), ev) = StartState(devices[i])
    /\ (ReportHandled /\ last.ieee \in DOMAIN devices
        /\ devices[last.ieee].manufacturer \notin SPECIALIZED_LISTENERS)
       => /\ \A k \in 1..Len(last.sent) : last.sent[k].how # "bind"
          /\ Len(last.writes) <= Len(last.task.msg.args)

\* A device whose manufacturer is still unknown handled a heartbeat report
C32_Witness ==
    /\ ReportHandled
    /\ last.ieee \in DOMAIN devices
    /\ devices[last.ieee].manufacturer = None
    /\ last.task.msg.args # <<>>
    /\ last.task.msg.args[1][1] = XiaomiHeartbeat
    /\ AttributeUpdatedEvents # <<>>

----------------------------------------------------------------------------
(* The properties of the rows of the four relations *)

\* The ieee column has a devices row; (ieee, endpoint_id) has an endpoints row
HasDeviceRow(ieee) == \E k \in 1..Len(db.devices) : db.devices[k][1] = ieee
HasEndpointRow(ieee, endpoint_id) ==
    \E k \in 1..Len(db.endpoints) : db.endpoints[k][1] = ieee /\ db.endpoints[k][2] = endpoint_id

\* C33: in every state every clusters row names an (ieee, endpoint_id) that
\* has an endpoints row, every endpoints row an ieee that has a devices row,
\* and every cluster_attributes row an ieee and an endpoint_id that have a
\* devices row and an endpoints row.
C33_RowsHaveParents ==
    /\ \A k \in 1..Len(db.clusters) : HasEndpointRow(db.clusters[k][1], db.clusters[k][2])
    /\ \A k \in 1..Len(db.endpoints) : HasDeviceRow(db.endpoints[k][1])
    /\ \A k \in 1..Len(db.cluster_attributes) :
          /\ HasDeviceRow(db.cluster_attributes[k][1])
          /\ HasEndpointRow(db.cluster_attributes[k][1], db.cluster_attributes[k][2])

----------------------------------------------------------------------------
(* The properties of the status of an endpoint *)

\* The Endpoint objects of a device: the values of Device.endpoints but the ZDO
Endpoints(dev) == {k \in 1..Len(dev.endpoints) : ~dev.endpoints[k].zdo}

\* C34: the status of an Endpoint never decreases in the order NEW <
\* INITIALIZING < INITIALIZED: no step takes an endpoint a device keeps to a
\* lower status, and an INITIALIZED endpoint stays INITIALIZED whatever
\* initialization is attempted on it later.
C34_EndpointStatusNeverDecreases ==
    [][\A i \in (DOMAIN devices) \cap (DOMAIN devices') :
          \A k \in Endpoints(devices[i]) :
              LET ep == devices[i].endpoints[k]
              IN  HasEndpoint(devices'[i], ep.endpoint_id) =>
                      GetEndpoint(devices'[i], ep.endpoint_id).status >= ep.status
      ]_vars

\* C35: an Endpoint whose status is not NEW has a profile id, so that
\* Endpoint.get_aps, which asserts no more than status != NEW, can read
\* self.profile_id.  Stated for the endpoints of a device none of whose
\* coroutines is suspended, that is with no initialization under way.
C35_ProfileKnownUnlessNew ==
    \A i \in DOMAIN devices :
        tasks[i].pc = "idle" =>
            \A k \in Endpoints(devices[i]) :
                devices[i].endpoints[k].status # EpStatus_NEW
                    => devices[i].endpoints[k].profile_id # Unset

====
